---- MODULE Spec2Model ----
(***************************************************************************)
(* Model of the PayloadCMS content generator tool:                         *)
(*   JSONProcessor        (json-processor.ts)  validator and compiler      *)
(*   PayloadCMSClient     (payload-client.ts)  authenticated HTTP client   *)
(*   PayloadCMSContentGeneratorTool (mcp-tool) createPostFromJSON pipeline *)
(*                                                                         *)
(* JavaScript strings are sequences of one-character strings, other        *)
(* JavaScript values are tagged records.  The remote service is the        *)
(* environment: every HTTP call either fails (transport error or non-2xx   *)
(* status) or answers with the envelope of its endpoint; the ids inside an *)
(* envelope are not trusted to be well formed.                             *)
(***************************************************************************)
EXTENDS Integers, Sequences, FiniteSets, TLC

\* ------------------------------------------------------------------------
\* Bounds of the model
\* ------------------------------------------------------------------------
MaxBlocks == 2

NCalls == 3

MaxTitles == 2

\* ------------------------------------------------------------------------
\* JavaScript values
\* ------------------------------------------------------------------------
Undef == [t |-> "undefined"]

Null == [t |-> "null"]

Str(s) == [t |-> "string", s |-> s]

Bool(b) == [t |-> "boolean", b |-> b]

Num(n) == [t |-> "number", n |-> n]

Arr(a) == [t |-> "array", a |-> a]

Obj(o) == [t |-> "object", o |-> o]

\* typeof v
TypeOf(v) ==
  CASE v.t = "undefined" -> "undefined"
    [] v.t = "null" -> "object"
    [] v.t = "array" -> "object"
    [] OTHER -> v.t

\* ToBoolean(v)
Truthy(v) ==
  CASE v.t = "undefined" -> FALSE
    [] v.t = "null" -> FALSE
    [] v.t = "boolean" -> v.b
    [] v.t = "number" -> v.n # 0
    [] v.t = "string" -> Len(v.s) > 0
    [] OTHER -> TRUE

\* v.k throws a TypeError exactly when v is null or undefined
Nullish(v) == v.t \in {"undefined", "null"}

\* v.k for a value v that is not nullish
Get(v, k) ==
  IF v.t = "object" /\ k \in DOMAIN v.o THEN v.o[k] ELSE Undef

\* v?.k
OptGet(v, k) == IF Nullish(v) THEN Undef ELSE Get(v, k)

IsStr(v) == v.t = "string"

\* ------------------------------------------------------------------------
\* Strings
\* ------------------------------------------------------------------------
UpperChars == <<"A", "B", "C", "D", "E", "F", "G", "H", "I", "J", "K", "L", "M",
                "N", "O", "P", "Q", "R", "S", "T", "U", "V", "W", "X", "Y", "Z">>

LowerChars == <<"a", "b", "c", "d", "e", "f", "g", "h", "i", "j", "k", "l", "m",
                "n", "o", "p", "q", "r", "s", "t", "u", "v", "w", "x", "y", "z">>

Digits == {"0", "1", "2", "3", "4", "5", "6", "7", "8", "9"}

Whitespace == {" ", "\t", "\n"}

Range(f) == {f[i] : i \in DOMAIN f}

LowerChar(c) ==
  IF c \in Range(UpperChars)
    THEN LowerChars[CHOOSE i \in DOMAIN UpperChars : UpperChars[i] = c]
    ELSE c

\* String.prototype.toLowerCase
ToLowerCase(s) == [i \in DOMAIN s |-> LowerChar(s[i])]

RECURSIVE TrimStart(_)
TrimStart(s) ==
  IF s # << >> /\ Head(s) \in Whitespace THEN TrimStart(Tail(s)) ELSE s

RECURSIVE TrimEnd(_)
TrimEnd(s) ==
  IF s # << >> /\ s[Len(s)] \in Whitespace
    THEN TrimEnd(SubSeq(s, 1, Len(s) - 1))
    ELSE s

\* String.prototype.trim
Trim(s) == TrimEnd(TrimStart(s))

\* s.replace(/[^...]/g, '') for the character class keep
RECURSIVE KeepOnly(_, _)
KeepOnly(s, keep) ==
  IF s = << >> THEN << >>
  ELSE IF Head(s) \in keep THEN <<Head(s)>> \o KeepOnly(Tail(s), keep)
  ELSE KeepOnly(Tail(s), keep)

\* s.replace(/C+/g, '-') for the character class cls: every maximal run of
\* characters of cls becomes one hyphen
RECURSIVE RunsToHyphen(_, _)
RunsToHyphen(s, cls) ==
  IF s = << >> THEN << >>
  ELSE IF Head(s) \in cls
    THEN IF Len(s) > 1 /\ s[2] \in cls
           THEN RunsToHyphen(Tail(s), cls)
           ELSE <<"-">> \o RunsToHyphen(Tail(s), cls)
  ELSE <<Head(s)>> \o RunsToHyphen(Tail(s), cls)

\* s.replace(/^-|-$/g, ''): one leading and one trailing hyphen are removed
TrimHyphen(s) ==
  LET a == IF s # << >> /\ Head(s) = "-" THEN Tail(s) ELSE s
  IN  IF a # << >> /\ a[Len(a)] = "-" THEN SubSeq(a, 1, Len(a) - 1) ELSE a

SlugChars == Range(LowerChars) \cup Digits \cup Whitespace \cup {"-"}

\* variant: repeated hyphens are collapsed before white space becomes hyphens
generateSlugHyphensFirst(title) ==
  TrimHyphen(RunsToHyphen(RunsToHyphen(KeepOnly(ToLowerCase(title), SlugChars),
                                       {"-"}), Whitespace))

\* JSONProcessor.generateSlug
generateSlug(title) ==
  TrimHyphen(RunsToHyphen(RunsToHyphen(KeepOnly(ToLowerCase(title), SlugChars),
                                       Whitespace), {"-"}))

\* ------------------------------------------------------------------------
\* JSONProcessor.validatePostCreationRequest
\* ------------------------------------------------------------------------
\* an error message; at is the index interpolated into it (-1 when it has none)
Msg(at, m) == [at |-> at, m |-> m]

\* the string literals of the source, spelled as character sequences
Lparagraph == <<"p", "a", "r", "a", "g", "r", "a", "p", "h">>

Lheading == <<"h", "e", "a", "d", "i", "n", "g">>

Lcode == <<"c", "o", "d", "e">>

Lbanner == <<"b", "a", "n", "n", "e", "r">>

LmediaBlock == <<"m", "e", "d", "i", "a", "B", "l", "o", "c", "k">>

Ljavascript == <<"j", "a", "v", "a", "s", "c", "r", "i", "p", "t">>

Lh2 == <<"h", "2">>

Linfo == <<"i", "n", "f", "o">>

Lrandom == <<"r", "a", "n", "d", "o", "m">>

Ldraft == <<"d", "r", "a", "f", "t">>

BlockTypes == {Lparagraph, Lheading, Lcode, Lbanner, LmediaBlock}

allowedLanguages == {
  <<"t", "y", "p", "e", "s", "c", "r", "i", "p", "t">>,
  <<"j", "a", "v", "a", "s", "c", "r", "i", "p", "t">>,
  <<"c", "s", "s">>,
  <<"h", "t", "m", "l">>,
  <<"p", "y", "t", "h", "o", "n">>,
  <<"b", "a", "s", "h">>,
  <<"j", "s", "o", "n">>,
  <<"y", "a", "m", "l">>,
  <<"d", "o", "c", "k", "e", "r", "f", "i", "l", "e">>,
  <<"s", "q", "l">>,
  <<"m", "a", "r", "k", "d", "o", "w", "n">>,
  <<"x", "m", "l">>}

allowedLevels == {Lh2, <<"h", "3">>}

allowedStyles == {Linfo, <<"w", "a", "r", "n", "i", "n", "g">>, <<"e", "r", "r", "o", "r">>, <<"s", "u", "c", "c", "e", "s", "s">>}

\* allowed.includes(v): strict equality with one of the string literals
Includes(allowed, v) == IsStr(v) /\ v.s \in allowed

\* v === 'literal'
Is(v, lit) == v = Str(lit)

\* errors pushed for the required field title
TitleErrors(data) ==
  LET title == Get(data, "title")
  IN  IF ~Truthy(title) \/ TypeOf(title) # "string" \/ Len(Trim(title.s)) = 0
        THEN <<Msg(-1, "title is required and must be a non-empty string")>>
        ELSE << >>

\* variant: the check of meta.description is missing
MetaErrorsTitleOnly(data) ==
  LET meta == Get(data, "meta")
  IN  IF ~Truthy(meta) \/ TypeOf(meta) # "object"
        THEN <<Msg(-1, "meta is required and must be an object")>>
        ELSE IF ~Truthy(Get(meta, "title")) \/ TypeOf(Get(meta, "title")) # "string"
          THEN <<Msg(-1, "meta.title is required and must be a string")>>
          ELSE << >>

\* errors pushed for the required field meta
MetaErrors(data) ==
  LET meta == Get(data, "meta")
  IN  IF ~Truthy(meta) \/ TypeOf(meta) # "object"
        THEN <<Msg(-1, "meta is required and must be an object")>>
        ELSE (IF ~Truthy(Get(meta, "title")) \/ TypeOf(Get(meta, "title")) # "string"
                THEN <<Msg(-1, "meta.title is required and must be a string")>>
                ELSE << >>)
             \o
             (IF ~Truthy(Get(meta, "description"))
                 \/ TypeOf(Get(meta, "description")) # "string"
                THEN <<Msg(-1, "meta.description is required and must be a string")>>
                ELSE << >>)

\* errors pushed by the forEach callback for the block at index (0-based)
BlockErrors(block, index) ==
  LET type == Get(block, "type")
      content == Get(block, "content")
      metadata == Get(block, "metadata")
  IN  (IF ~Truthy(type) \/ TypeOf(type) # "string"
         THEN <<Msg(index, "blocks[].type is required and must be a string")>>
         ELSE IF ~Includes(BlockTypes, type)
           THEN <<Msg(index, "blocks[].type must be one of: paragraph, heading, code, banner, mediaBlock")>>
           ELSE << >>)
      \o
      (IF ~Is(type, LmediaBlock) /\ (~Truthy(content) \/ TypeOf(content) # "string")
         THEN <<Msg(index, "blocks[].content is required and must be a string")>>
         ELSE IF Is(type, LmediaBlock) /\ TypeOf(content) # "string"
           THEN <<Msg(index, "blocks[].content must be a string (can be empty for mediaBlock)")>>
           ELSE << >>)
      \o
      (IF Truthy(metadata) /\ TypeOf(metadata) # "object"
         THEN <<Msg(index, "blocks[].metadata must be an object if provided")>>
         ELSE << >>)
      \o
      (IF Is(type, Lcode) /\ Truthy(OptGet(metadata, "language"))
            /\ ~Includes(allowedLanguages, OptGet(metadata, "language"))
         THEN <<Msg(index, "blocks[].metadata.language must be one of: allowedLanguages")>>
         ELSE << >>)
      \o
      (IF Is(type, Lheading) /\ Truthy(OptGet(metadata, "level"))
            /\ ~Includes(allowedLevels, OptGet(metadata, "level"))
         THEN <<Msg(index, "blocks[].metadata.level must be one of: h2, h3")>>
         ELSE << >>)
      \o
      (IF Is(type, Lbanner) /\ Truthy(OptGet(metadata, "style"))
            /\ ~Includes(allowedStyles, OptGet(metadata, "style"))
         THEN <<Msg(index, "blocks[].metadata.style must be one of: info, warning, error, success")>>
         ELSE << >>)

RECURSIVE BlocksLoop(_, _)
BlocksLoop(a, k) ==
  IF k > Len(a) THEN << >> ELSE BlockErrors(a[k], k - 1) \o BlocksLoop(a, k + 1)

\* errors pushed for the required field blocks
BlocksErrors(data) ==
  LET blocks == Get(data, "blocks")
  IN  IF ~Truthy(blocks) \/ blocks.t # "array"
        THEN <<Msg(-1, "blocks is required and must be an array")>>
        ELSE BlocksLoop(blocks.a, 1)

RECURSIVE CategoriesLoop(_, _)
CategoriesLoop(a, k) ==
  IF k > Len(a) THEN << >>
  ELSE (IF TypeOf(a[k]) # "string" \/ Len(Trim(a[k].s)) = 0
          THEN <<Msg(k - 1, "categories[] must be a non-empty string")>>
          ELSE << >>)
       \o CategoriesLoop(a, k + 1)

\* errors pushed for the optional fields slug, categories and heroImage
OptionalErrors(data) ==
  LET slug == Get(data, "slug")
      categories == Get(data, "categories")
      heroImage == Get(data, "heroImage")
  IN  (IF Truthy(slug) /\ (TypeOf(slug) # "string" \/ Len(Trim(slug.s)) = 0)
         THEN <<Msg(-1, "slug must be a non-empty string if provided")>>
         ELSE << >>)
      \o
      (IF Truthy(categories) /\ categories.t # "array"
         THEN <<Msg(-1, "categories must be an array if provided")>>
         ELSE IF Truthy(categories) THEN CategoriesLoop(categories.a, 1)
         ELSE << >>)
      \o
      (IF Truthy(heroImage) /\ TypeOf(heroImage) # "boolean"
         THEN <<Msg(-1, "heroImage must be a boolean if provided")>>
         ELSE << >>)

\* the inputs on which a property read hits null or undefined (TypeError):
\* data itself, or an element of data.blocks
ValidateThrows(data) ==
  \/ Nullish(data)
  \/ /\ Get(data, "blocks").t = "array"
     /\ \E k \in DOMAIN Get(data, "blocks").a : Nullish(Get(data, "blocks").a[k])

\* the completion of an operation that threw: the Error's message and stack
Threw(message) == [threw |-> TRUE, message |-> message, stack |-> <<"stack", message>>]

\* variant: the validator stops at the first violation
validateFailFast(data) ==
  IF ValidateThrows(data)
    THEN Threw("TypeError: Cannot read properties of null or undefined")
    ELSE LET errors == TitleErrors(data) \o MetaErrors(data) \o BlocksErrors(data)
                         \o OptionalErrors(data)
         IN  [threw |-> FALSE, valid |-> Len(errors) = 0,
              errors |-> IF errors = << >> THEN << >> ELSE <<errors[1]>>]

validatePostCreationRequest(data) ==
  IF ValidateThrows(data)
    THEN Threw("TypeError: Cannot read properties of null or undefined")
    ELSE LET errors == TitleErrors(data) \o MetaErrors(data) \o BlocksErrors(data)
                         \o OptionalErrors(data)
         IN  [threw |-> FALSE, valid |-> Len(errors) = 0, errors |-> errors]

\* ------------------------------------------------------------------------
\* JSONProcessor.processPostCreationRequest (the compiler)
\* ------------------------------------------------------------------------
\* a || b
Or(a, b) == IF Truthy(a) THEN a ELSE b

TextNode(text) == [type |-> "text", text |-> text]

createHeading(text, tag) ==
  [type |-> "heading", children |-> <<TextNode(text)>>, tag |-> tag]

createParagraph(text) ==
  [type |-> "paragraph", children |-> <<TextNode(text)>>]

\* variant: the requested language is written without the check
createCodeBlockAnyLanguage(code, language) ==
  [type |-> "block",
   fields |-> [blockType |-> "code", language |-> language, code |-> code]]

createCodeBlock(code, language) ==
  LET validLanguage == IF Includes(allowedLanguages, language)
                         THEN language ELSE Str(Ljavascript)
  IN  [type |-> "block",
       fields |-> [blockType |-> "code", language |-> validLanguage, code |-> code]]

createBannerBlock(text, style) ==
  [type |-> "block",
   fields |-> [blockType |-> "banner", style |-> style,
               content |-> [root |-> [type |-> "root",
                                      children |-> <<createParagraph(text)>>]]]]

createMediaBlock ==
  [type |-> "block", fields |-> [blockType |-> "mediaBlock", media |-> Str(Lrandom)]]

\* the node pushed by one iteration of the switch over block.type
ConvertBlock(block) ==
  LET type == Get(block, "type")
      content == Get(block, "content")
      metadata == Get(block, "metadata")
  IN  CASE Is(type, Lheading) ->
             createHeading(content, Or(OptGet(metadata, "level"), Str(Lh2)))
        [] Is(type, Lparagraph) -> createParagraph(content)
        [] Is(type, Lcode) ->
             createCodeBlock(content, Or(OptGet(metadata, "language"), Str(Ljavascript)))
        [] Is(type, Lbanner) ->
             createBannerBlock(content, Or(OptGet(metadata, "style"), Str(Linfo)))
        [] Is(type, LmediaBlock) -> createMediaBlock
        [] OTHER -> createParagraph(content)

\* variant: the nodes are put in front of the list instead of behind it
convertBlocksReversed(blocks) ==
  [root |-> [type |-> "root",
             children |-> [k \in DOMAIN blocks.a |->
                             ConvertBlock(blocks.a[Len(blocks.a) + 1 - k])]]]

convertBlocksToLexical(blocks) ==
  [root |-> [type |-> "root", children |-> [k \in DOMAIN blocks.a |-> ConvertBlock(blocks.a[k])]]]

\* mutant: the status is taken over from the request when it carries one
CompiledStatusFromRequest(request) == Or(Get(request, "_status"), Str(Ldraft))

\* the status written into the compiled submission
CompiledStatus(request) == Str(Ldraft)

\* variant: the marker is written to meta.image as well
processWithMetaImage(request) ==
  LET title == Get(request, "title")
      slug == Get(request, "slug")
      meta == Get(request, "meta")
      heroImage == Get(request, "heroImage")
      finalSlug == IF Truthy(slug) THEN slug ELSE Str(generateSlug(title.s))
  IN  [slug |-> finalSlug,
       _status |-> CompiledStatus(request),
       title |-> title,
       content |-> convertBlocksToLexical(Get(request, "blocks")),
       meta |-> [title |-> Get(meta, "title"),
                 description |-> Get(meta, "description"),
                 image |-> IF Truthy(heroImage) THEN Str(Lrandom) ELSE Undef],
       heroImage |-> IF Truthy(heroImage) THEN Str(Lrandom) ELSE Undef,
       authors |-> Undef,
       relatedPosts |-> Arr(<< >>)]

\* variant: the categories of the request are handed on
processWithCategories(request) ==
  LET title == Get(request, "title")
      slug == Get(request, "slug")
      meta == Get(request, "meta")
      heroImage == Get(request, "heroImage")
      finalSlug == IF Truthy(slug) THEN slug ELSE Str(generateSlug(title.s))
  IN  [slug |-> finalSlug,
       _status |-> CompiledStatus(request),
       title |-> title,
       content |-> convertBlocksToLexical(Get(request, "blocks")),
       meta |-> [title |-> Get(meta, "title"),
                 description |-> Get(meta, "description"),
                 image |-> Undef],
       heroImage |-> IF Truthy(heroImage) THEN Str(Lrandom) ELSE Undef,
       authors |-> Undef,
       relatedPosts |-> Arr(<< >>),
       categories |-> Get(request, "categories")]

processPostCreationRequest(request) ==
  LET title == Get(request, "title")
      slug == Get(request, "slug")
      meta == Get(request, "meta")
      heroImage == Get(request, "heroImage")
      finalSlug == IF Truthy(slug) THEN slug ELSE Str(generateSlug(title.s))
  IN  [slug |-> finalSlug,
       _status |-> CompiledStatus(request),
       title |-> title,
       content |-> convertBlocksToLexical(Get(request, "blocks")),
       meta |-> [title |-> Get(meta, "title"),
                 description |-> Get(meta, "description"),
                 image |-> Undef],
       heroImage |-> IF Truthy(heroImage) THEN Str(Lrandom) ELSE Undef,
       authors |-> Undef,
       relatedPosts |-> Arr(<< >>)]

\* ------------------------------------------------------------------------
\* PayloadCMSClient: pure parts
\* ------------------------------------------------------------------------
HexChars == Digits \cup {"a", "b", "c", "d", "e", "f", "A", "B", "C", "D", "E", "F"}

ObjectIdLength == 24

\* PayloadCMSClient.isValidObjectId
isValidObjectId(id) ==
  IF ~Truthy(id) \/ TypeOf(id) # "string" THEN FALSE
  ELSE Len(id.s) = ObjectIdLength /\ \A i \in DOMAIN id.s : id.s[i] \in HexChars

LdemoAuthor == <<"d", "e", "m", "o", "-", "a", "u", "t", "h", "o", "r", "@", "e", "x", "a", "m", "p", "l", "e", ".", "c", "o", "m">>

LimagePrefix == <<"i", "m", "a", "g", "e", "/">>

\* s.startsWith(prefix)
StartsWith(s, prefix) ==
  Len(s) >= Len(prefix) /\ SubSeq(s, 1, Len(prefix)) = prefix

\* Array.prototype.find: the first element satisfying the test, else undefined
RECURSIVE FindEmail(_, _)
FindEmail(users, email) ==
  IF users = << >> THEN Undef
  ELSE IF Get(Head(users), "email") = email THEN Head(users)
  ELSE FindEmail(Tail(users), email)

\* variant: an identity found with a malformed id ends the search
getDefaultAuthorStrict(users, admin_email) ==
  LET currentAdmin == FindEmail(users, admin_email)
      demoAuthor == FindEmail(users, Str(LdemoAuthor))
      found == IF Truthy(currentAdmin) THEN currentAdmin
               ELSE IF Truthy(demoAuthor) THEN demoAuthor
               ELSE IF Len(users) > 0 THEN users[1]
               ELSE Undef
  IN  IF Truthy(found) /\ isValidObjectId(Get(found, "id"))
        THEN Get(found, "id") ELSE Null

\* PayloadCMSClient.getDefaultAuthor on the list returned by getUsers:
\* the author id, or Null
getDefaultAuthor(users, admin_email) ==
  LET currentAdmin == FindEmail(users, admin_email)
      demoAuthor == FindEmail(users, Str(LdemoAuthor))
  IN  IF Truthy(currentAdmin) /\ isValidObjectId(Get(currentAdmin, "id"))
        THEN Get(currentAdmin, "id")
      ELSE IF Truthy(demoAuthor) /\ isValidObjectId(Get(demoAuthor, "id"))
        THEN Get(demoAuthor, "id")
      ELSE IF Len(users) > 0 /\ isValidObjectId(Get(users[1], "id"))
        THEN Get(users[1], "id")
      ELSE Null

HeroMinWidth == 800

\* the test of media.filter in getRandomHeroImage
IsHeroImage(m) ==
  /\ ~Nullish(Get(m, "mimeType"))
  /\ IsStr(Get(m, "mimeType"))
  /\ StartsWith(Get(m, "mimeType").s, LimagePrefix)
  /\ Or(Get(m, "width"), Num(0)).n > HeroMinWidth

\* variant: any item of the list may be selected
getRandomHeroImageAny(media) ==
  {IF Truthy(sel) /\ isValidObjectId(Get(sel, "id")) THEN Get(sel, "id") ELSE Null :
     sel \in IF Len(media) > 0 THEN Range(media) ELSE {Null}}

\* PayloadCMSClient.getRandomHeroImage on the list returned by getMedia: the
\* set of values it can return (Math.random picks among the images)
getRandomHeroImage(media) ==
  LET images == SelectSeq(media, IsHeroImage)
      selected == IF Len(images) = 0
                    THEN (IF Len(media) > 0 THEN {media[1]} ELSE {Null})
                    ELSE Range(images)
  IN  {IF Truthy(sel) /\ isValidObjectId(Get(sel, "id")) THEN Get(sel, "id") ELSE Null :
         sel \in selected}

\* ------------------------------------------------------------------------
\* State
\* ------------------------------------------------------------------------
VARIABLES
  config,      \* PayloadCMSClient.config: base_url and the credentials
  authToken,   \* PayloadCMSClient.authToken, NoToken for null
  loginCount,  \* number of POST /api/users/login requests issued so far
  net,         \* the requests issued to the remote service, in order
  request,     \* the argument of createPostFromJSON
  pc,          \* the position of createPostFromJSON
  result,      \* the value createPostFromJSON returned
  postData,    \* the submission being compiled and enriched
  compiled,    \* number of calls of processPostCreationRequest
  probe,       \* the value testConnection returned
  inflight,    \* paths of the media blocks whose resolution call is pending
  resolved,    \* the resolution calls of the walk that returned: <<path, value>>
  posts,       \* remote service: the posts it stores
  media,       \* remote service: the media collection
  users        \* remote service: the users collection

clientVars == <<config, authToken, loginCount, net>>

toolVars == <<request, pc, result, postData, compiled, probe, inflight, resolved>>

remoteVars == <<posts, media, users>>

\* state of the concurrent use of one client, and of getOrCreateCategories
VARIABLES
  calls,        \* the calls in progress on the client, one per caller
  authCalls,    \* number of calls of authenticate so far
  lastAuth,     \* the most recent call of authenticate and its outcome
  categories,   \* remote service: the categories collection
  goc           \* the position and locals of getOrCreateCategories

callVars == <<calls, authCalls, lastAuth>>

catVars == <<categories, goc>>

\* state of the direct calls of the operations that keep no state of their own
VARIABLES
  input,        \* the operation called and its arguments
  output        \* the value it returned or the exception it threw

evalVars == <<input, output>>

vars == <<clientVars, toolVars, remoteVars, callVars, catVars, evalVars>>

NoToken == [cred |-> <<Undef, Undef>>, n |-> 0]

\* mutant: the cache is never consulted
TokenCachedNever(tok) == FALSE

\* getAuthToken, ensureAuthenticated: the test whether a token is cached
TokenCached(tok) == tok # NoToken

\* mutant: a failed login discards the cached token
AfterLoginFailureClears(tok) == NoToken

\* the catch clause of getAuthToken rethrows and leaves this.authToken alone
AfterLoginFailure(tok) == tok

\* the token the remote service issues for the n-th login request
Token(cred, n) == [cred |-> cred, n |-> n]

Credentials(c) == <<c.admin_email, c.admin_password>>

\* a request sent to the remote service
Req(method, ep, token, body) ==
  [method |-> method, ep |-> ep, token |-> token, body |-> body]

LoginReq(c) == Req("POST", "/users/login", NoToken, Credentials(c))

NoResult == [pending |-> TRUE]

Failure(error, details) == [success |-> FALSE, error |-> error, details |-> details]

\* Array.prototype.join(sep): the elements with the separator between them
RECURSIVE Join(_, _)
Join(a, sep) ==
  IF Len(a) = 0 THEN << >>
  ELSE IF Len(a) = 1 THEN <<a[1]>>
  ELSE <<a[1], sep>> \o Join(Tail(a), sep)

\* mutant: the exception is passed on to the caller
CatchRethrow(e) == e

\* the catch clause of createPostFromJSON
CatchResult(e) == Failure(e.message, e.stack)

\* JSON.stringify leaves out the keys whose value is undefined
DropUndef(r) == [k \in {j \in DOMAIN r : r[j] # Undef} |-> r[k]]

Serialize(pd) == DropUndef([pd EXCEPT !.meta = DropUndef(@)])

\* ------------------------------------------------------------------------
\* PayloadCMSContentGeneratorTool.processMediaBlocks
\* ------------------------------------------------------------------------
\* the test of the callback: a mediaBlock node still holding the marker
IsPlaceholder(block) ==
  /\ block.type = "block"
  /\ "fields" \in DOMAIN block
  /\ block.fields.blockType = "mediaBlock"
  /\ block.fields.media = Str(Lrandom)

\* the paths of the placeholders met by processBlocks, in document order
RECURSIVE WalkPaths(_, _, _)
WalkPaths(blocks, prefix, k) ==
  IF k > Len(blocks) THEN << >>
  ELSE (IF IsPlaceholder(blocks[k]) THEN <<prefix \o <<k>>>> ELSE << >>)
       \o (IF "children" \in DOMAIN blocks[k]
             THEN WalkPaths(blocks[k].children, prefix \o <<k>>, 1)
             ELSE << >>)
       \o WalkPaths(blocks, prefix, k + 1)

PlaceholderPaths(pd) == WalkPaths(pd.content.root.children, << >>, 1)

\* variant: the id one call resolved is written to every placeholder
SetMediaEvery(blocks, path, mediaId) ==
  [k \in DOMAIN blocks |->
     IF IsPlaceholder(blocks[k])
       THEN [blocks[k] EXCEPT !.fields.media = mediaId]
       ELSE blocks[k]]

\* block.fields.media = mediaId for the block at path
RECURSIVE SetMedia(_, _, _)
SetMedia(blocks, path, mediaId) ==
  [blocks EXCEPT ![Head(path)] =
     IF Len(path) = 1
       THEN [@ EXCEPT !.fields.media = mediaId]
       ELSE [@ EXCEPT !.children = SetMedia(@, Tail(path), mediaId)]]

\* mutant: the walk is not awaited
WalkJoinedEarly(pending) == TRUE

\* variant: the promise of the walk is never settled
WalkJoinedNever(pending) == FALSE

\* await Promise.all(processBlocks(...)): the walk is over when no resolution
\* call of it is pending
WalkJoined(pending) == pending = {}

\* ------------------------------------------------------------------------
\* createPostFromJSON: one action per stretch of code between two awaits
\* ------------------------------------------------------------------------
Return(r) ==
  /\ pc' = "done"
  /\ result' = r

\* createPost: ensureAuthenticated and makeRequest find the cached token
Submit(pd, log) ==
  /\ pc' = "submit"
  /\ net' = Append(log, Req("POST", "/posts", authToken, Serialize(pd)))

\* processMediaBlocks up to its await, then createPost when nothing is pending
BeginWalk(pd, log) ==
  LET paths == PlaceholderPaths(pd)
      log2 == log \o [i \in 1..Len(paths) |->
                        Req("GET", "/media?limit=1000", authToken, Undef)]
  IN  /\ inflight' = Range(paths)
      /\ IF WalkJoined(Range(paths))
           THEN Submit(pd, log2)
           ELSE pc' = "media" /\ net' = log2

\* mutant: the early return is never taken
RejectedNever(validation) == FALSE

\* the test of the early return after validation: if (!validation.valid)
Rejected(validation) == ~validation.valid

\* line 18-25 when the validator throws: the catch clause
RejectThrown ==
  /\ pc = "start"
  /\ validatePostCreationRequest(request).threw
  /\ Return(CatchResult(validatePostCreationRequest(request)))
  /\ UNCHANGED <<clientVars, request, postData, compiled, probe, inflight, resolved, remoteVars,
                 callVars, catVars, evalVars>>

\* line 18-25 when the request is invalid
RejectInvalid ==
  /\ pc = "start"
  /\ LET validation == validatePostCreationRequest(request)
     IN  /\ ~validation.threw
         /\ Rejected(validation)
         /\ Return(Failure("Invalid JSON input", Join(validation.errors, ", ")))
  /\ UNCHANGED <<clientVars, request, postData, compiled, probe, inflight, resolved, remoteVars,
                 callVars, catVars, evalVars>>

\* the request is valid: testConnection, whose ensureAuthenticated logs in
BeginProbeLogin ==
  /\ pc = "start"
  /\ ~validatePostCreationRequest(request).threw
  /\ ~Rejected(validatePostCreationRequest(request))
  /\ ~TokenCached(authToken)
  /\ pc' = "probe_login"
  /\ loginCount' = loginCount + 1
  /\ net' = Append(net, LoginReq(config))
  /\ UNCHANGED <<config, authToken, request, result, postData, compiled, probe,
                 inflight, resolved, remoteVars,
                 callVars, catVars, evalVars>>

\* the request is valid: testConnection with a token cached by an earlier use
BeginProbeCached ==
  /\ pc = "start"
  /\ ~validatePostCreationRequest(request).threw
  /\ ~Rejected(validatePostCreationRequest(request))
  /\ TokenCached(authToken)
  /\ pc' = "probe_get"
  /\ net' = Append(net, Req("GET", "/posts?limit=1", authToken, Undef))
  /\ UNCHANGED <<config, authToken, loginCount, request, result, postData, compiled,
                 probe, inflight, resolved, remoteVars,
                 callVars, catVars, evalVars>>

\* the login of testConnection succeeds: the token is cached, the probe is sent
ProbeLoginOk ==
  /\ pc = "probe_login"
  /\ authToken' = Token(Credentials(config), loginCount)
  /\ pc' = "probe_get"
  /\ net' = Append(net, Req("GET", "/posts?limit=1", authToken', Undef))
  /\ UNCHANGED <<config, loginCount, request, result, postData, compiled, probe,
                 inflight, resolved, remoteVars,
                 callVars, catVars, evalVars>>

ConnectivityFailure ==
  Failure("Could not connect to PayloadCMS Local API",
          "Failed to initialize PayloadCMS Local API. Ensure the tool is running inside the PayloadCMS container.")

\* the login of testConnection fails: testConnection returns false
ProbeLoginFail ==
  /\ pc = "probe_login"
  /\ probe' = FALSE
  /\ Return(ConnectivityFailure)
  /\ UNCHANGED <<clientVars, request, postData, compiled, inflight, resolved, remoteVars,
                 callVars, catVars, evalVars>>

\* the probe request fails: testConnection returns false
ProbeFail ==
  /\ pc = "probe_get"
  /\ probe' = FALSE
  /\ Return(ConnectivityFailure)
  /\ UNCHANGED <<clientVars, request, postData, compiled, inflight, resolved, remoteVars,
                 callVars, catVars, evalVars>>

\* the probe succeeds: compile, then enhancePostDataFromJSON up to getUsers
ProbeOk ==
  /\ pc = "probe_get"
  /\ probe' = TRUE
  /\ postData' = processPostCreationRequest(request)
  /\ compiled' = compiled + 1
  /\ pc' = "author"
  /\ net' = Append(net, Req("GET", "/users?limit=100", authToken, Undef))
  /\ UNCHANGED <<config, authToken, loginCount, request, result, inflight, resolved, remoteVars,
                 callVars, catVars, evalVars>>

\* variant: an author that cannot be resolved ends the invocation
UsersReturnStrict(ok) ==
  /\ pc = "author"
  /\ LET docs == IF ok THEN users ELSE << >>
         authorId == getDefaultAuthor(docs, config.admin_email)
         enhanced == [postData EXCEPT !.authors = Arr(<<authorId>>)]
     IN  IF ~Truthy(authorId)
           THEN /\ Return(Failure("No author", "getDefaultAuthor returned null"))
                /\ UNCHANGED <<postData, net, inflight>>
           ELSE /\ postData' = enhanced
                /\ UNCHANGED result
                /\ IF Truthy(Get(request, "heroImage"))
                     THEN /\ pc' = "hero"
                          /\ net' = Append(net, Req("GET", "/media?limit=1000", authToken, Undef))
                          /\ UNCHANGED inflight
                     ELSE BeginWalk(enhanced, net)
  /\ UNCHANGED <<config, authToken, loginCount, request, compiled, probe, resolved,
                 remoteVars,
                 callVars, catVars, evalVars>>

\* getUsers returns docs (the collection, or nothing when the request failed);
\* the author is spliced in, then the hero image is looked up or the walk begins
UsersReturn(ok) ==
  /\ pc = "author"
  /\ LET docs == IF ok THEN users ELSE << >>
         authorId == getDefaultAuthor(docs, config.admin_email)
         enhanced == IF Truthy(authorId)
                       THEN [postData EXCEPT !.authors = Arr(<<authorId>>)]
                       ELSE postData
     IN  /\ postData' = enhanced
         /\ IF Truthy(Get(request, "heroImage"))
              THEN /\ pc' = "hero"
                   /\ net' = Append(net, Req("GET", "/media?limit=1000", authToken, Undef))
                   /\ UNCHANGED inflight
              ELSE BeginWalk(enhanced, net)
  /\ UNCHANGED <<config, authToken, loginCount, request, result, compiled, probe, resolved,
                 remoteVars,
                 callVars, catVars, evalVars>>

\* getMedia returns docs for getRandomHeroImage; the hero image is spliced in
\* when one was resolved, then the walk begins
HeroReturn(ok) ==
  /\ pc = "hero"
  /\ \E heroImageId \in getRandomHeroImage(IF ok THEN media ELSE << >>) :
       LET enhanced == IF Truthy(heroImageId)
                         THEN [postData EXCEPT !.heroImage = heroImageId,
                                               !.meta.image = heroImageId]
                         ELSE postData
       IN  /\ postData' = enhanced
           /\ BeginWalk(enhanced, net)
  /\ UNCHANGED <<config, authToken, loginCount, request, result, compiled, probe, resolved,
                 remoteVars,
                 callVars, catVars, evalVars>>

\* the resolution call of the media block at path returns; createPost is
\* called once the walk is joined
MediaReturn(path, ok) ==
  /\ path \in inflight
  /\ inflight' = inflight \ {path}
  /\ \E mediaId \in getRandomHeroImage(IF ok THEN media ELSE << >>) :
       LET enhanced ==
             IF Truthy(mediaId)
               THEN [postData EXCEPT !.content.root.children = SetMedia(@, path, mediaId)]
               ELSE postData
       IN  /\ postData' = enhanced
           /\ resolved' = resolved \cup {<<path, mediaId>>}
           /\ IF pc = "media" /\ WalkJoined(inflight')
                THEN Submit(enhanced, net)
                ELSE UNCHANGED <<pc, net>>
  /\ UNCHANGED <<config, authToken, loginCount, request, result, compiled, probe,
                 remoteVars,
                 callVars, catVars, evalVars>>

\* the id the remote service gives to its next post
NewPostId == Str([i \in 1..ObjectIdLength |-> IF i = 1 THEN "f" ELSE "0"])

\* the remote service stores the submitted body as a new post
StoredPost(body) ==
  Obj([id |-> NewPostId, slug |-> body.slug, title |-> body.title,
       _status |-> body._status])

getAdminUrl(c, postId) == <<c.base_url, "/admin/collections/posts/", postId>>

getPublicUrl(c, slug) == <<c.base_url, "/posts/", slug>>

\* mutant: only the form {doc: post} is accepted
CreatedPostDocOnly(responseData) == Get(responseData, "doc")

\* createPost: responseData.doc || responseData
CreatedPost(responseData) == Or(Get(responseData, "doc"), responseData)

\* createPost receives a 2xx response, in the form {doc: post} or post
PostOk(form) ==
  /\ pc = "submit"
  /\ LET body == net[Len(net)].body
         doc == StoredPost(body)
         responseData == IF form = "doc" THEN Obj([doc |-> doc]) ELSE doc
         createdPost == CreatedPost(responseData)
     IN  /\ posts' = Append(posts, [doc |-> doc, body |-> body])
         /\ IF ~Truthy(createdPost)
              THEN Return(Failure("Failed to create post",
                     "Post creation returned null - check PayloadCMS logs for details"))
              ELSE Return([success |-> TRUE,
                           post_id |-> Get(createdPost, "id"),
                           slug |-> Get(createdPost, "slug"),
                           title |-> Get(createdPost, "title"),
                           admin_url |-> getAdminUrl(config, Get(createdPost, "id")),
                           public_url |-> getPublicUrl(config, Get(createdPost, "slug"))])
  /\ UNCHANGED <<clientVars, request, postData, compiled, probe, inflight, resolved, media, users,
                 callVars, catVars, evalVars>>

\* variant: a failed createPost is sent again
PostFailResend ==
  /\ pc = "submit"
  /\ net' = Append(net, net[Len(net)])
  /\ UNCHANGED <<config, authToken, loginCount, toolVars, remoteVars,
                 callVars, catVars, evalVars>>

\* createPost fails (transport error or non-2xx): it rethrows, the catch
\* clause of createPostFromJSON returns the failure
PostFail ==
  /\ pc = "submit"
  /\ Return(CatchResult(Threw("API request failed")))
  /\ UNCHANGED <<clientVars, request, postData, compiled, probe, inflight, resolved, remoteVars,
                 callVars, catVars, evalVars>>

\* ------------------------------------------------------------------------
\* Inputs: requests and the collections of the remote service
\* ------------------------------------------------------------------------
AdminEmail == <<"a", "@", "x">>

OtherEmail == <<"o", "@", "x">>

Password == <<"p", "w">>

DefaultConfig ==
  [base_url |-> "http://localhost:3000",
   admin_email |-> Str(AdminEmail),
   admin_password |-> Str(Password)]

GoodId(c) == Str([i \in 1..ObjectIdLength |-> c])

ShortId == Str([i \in 1..(ObjectIdLength - 1) |-> "a"])

NonHexId == Str([i \in 1..ObjectIdLength |-> "g"])

User(id, email) == Obj([id |-> id, email |-> Str(email)])

Image(id, width) ==
  Obj([id |-> id, mimeType |-> Str(LimagePrefix \o <<"p", "n", "g">>),
       width |-> Num(width)])

Pdf(id) == Obj([id |-> id, mimeType |-> Str(<<"p", "d", "f">>), width |-> Undef])

UserLists ==
  { << >>,
    <<User(GoodId("a"), AdminEmail)>>,
    <<User(ShortId, AdminEmail), User(GoodId("b"), LdemoAuthor)>>,
    <<User(NonHexId, OtherEmail)>> }

MediaLists ==
  { << >>,
    <<Image(NonHexId, 1200)>>,
    <<Pdf(GoodId("2")), Image(GoodId("3"), 400)>>,
    <<Image(GoodId("1"), 1200), Image(GoodId("4"), 1920)>> }

Ldocker == <<"d", "o", "c", "k", "e", "r">>

Lpublished == <<"p", "u", "b", "l", "i", "s", "h", "e", "d">>

Block(type, content, metadata) ==
  Obj([type |-> Str(type), content |-> content, metadata |-> metadata])

BlockPool ==
  { Block(Lparagraph, Str(<<"H", "i">>), Undef),
    Block(LmediaBlock, Str(<< >>), Undef),
    Block(Lcode, Str(<<"x">>), Obj([language |-> Str(<<"p", "y", "t", "h", "o", "n">>)])),
    Block(Lheading, Str(<<"H">>), Obj([level |-> Str(<<"h", "3">>)])),
    Block(Lbanner, Str(<<"B">>), Undef),
    Block(<<"q">>, Str(<<"H", "i">>), Undef) }

RECURSIVE SeqsUpTo(_, _)
SeqsUpTo(S, n) ==
  IF n = 0 THEN {<< >>}
  ELSE SeqsUpTo(S, n - 1) \cup {Append(q, x) : q \in SeqsUpTo(S, n - 1), x \in S}

\* title, heroImage, _status and categories of the requests
RequestVariants ==
  { <<Str(<<"M", "y", " ", "P", "o", "s", "t", "!">>), Undef, Undef, Undef>>,
    <<Str(<<"M", "y", " ", "P", "o", "s", "t", "!">>), Bool(TRUE), Str(Lpublished),
      Arr(<<Str(<<"D">> \o Tail(Ldocker))>>)>>,
    <<Str(<<" ">>), Bool(TRUE), Undef, Undef>> }

MkRequest(v, blocks) ==
  Obj([title |-> v[1],
       meta |-> Obj([title |-> Str(<<"T">>), description |-> Str(<<"D">>)]),
       blocks |-> Arr(blocks),
       heroImage |-> v[2],
       _status |-> v[3],
       categories |-> v[4]])

Requests ==
  {Null, Num(5), Obj([blocks |-> Arr(<<Null>>)])}
    \cup {MkRequest(v, b) : v \in RequestVariants, b \in SeqsUpTo(BlockPool, MaxBlocks)}

\* ------------------------------------------------------------------------
\* Specification of one createPostFromJSON invocation
\* ------------------------------------------------------------------------
NoAuth == [p |-> 0, cred |-> <<Undef, Undef>>, returned |-> FALSE]

\* a caller that has not called yet and will invoke the method op
Idle(op) == [pc |-> "idle", op |-> op, cred |-> <<Undef, Undef>>, n |-> 0]

IdleCalls ==
  /\ calls = [p \in 1..NCalls |-> Idle("none")]
  /\ authCalls = 0
  /\ lastAuth = NoAuth

IdleCategories ==
  /\ categories = << >>
  /\ goc = [pc |-> "idle"]

\* no direct call is made
NoCall == [op |-> "none"]

IdleEval ==
  /\ input = NoCall
  /\ output = Undef

IdleTool ==
  /\ request = Undef
  /\ pc = "idle"
  /\ result = NoResult
  /\ postData = Undef
  /\ compiled = 0
  /\ probe = FALSE
  /\ inflight = {}
  /\ resolved = {}
  /\ posts = << >>
  /\ media = << >>
  /\ users = << >>

\* a token cached by an earlier use of the client
EarlierToken == Token(Credentials(DefaultConfig), 0)

Init ==
  /\ config = DefaultConfig
  /\ authToken \in {NoToken, EarlierToken}
  /\ loginCount = 0
  /\ net = << >>
  /\ request \in Requests
  /\ pc = "start"
  /\ result = NoResult
  /\ postData = Undef
  /\ compiled = 0
  /\ probe = FALSE
  /\ inflight = {}
  /\ resolved = {}
  /\ posts = << >>
  /\ media \in MediaLists
  /\ users \in UserLists
  /\ IdleCalls
  /\ IdleCategories
  /\ IdleEval

Next ==
  \/ RejectThrown
  \/ RejectInvalid
  \/ BeginProbeLogin
  \/ BeginProbeCached
  \/ ProbeLoginOk
  \/ ProbeLoginFail
  \/ ProbeOk
  \/ ProbeFail
  \/ \E ok \in BOOLEAN : UsersReturn(ok)
  \/ \E ok \in BOOLEAN : HeroReturn(ok)
  \/ \E path \in inflight, ok \in BOOLEAN : MediaReturn(path, ok)
  \/ \E form \in {"doc", "direct"} : PostOk(form)
  \/ PostFail


Spec == Init /\ [][Next]_vars

\* ------------------------------------------------------------------------
\* Concurrent calls on one PayloadCMSClient
\* ------------------------------------------------------------------------
\* the methods that go through ensureAuthenticated and makeRequest
DataOps == <<"getMedia", "getUsers", "getCategories", "createCategory",
            "createPost", "getPosts", "testConnection">>

\* the method caller p invokes when the callers start at the r-th method
OpOf(p, r) == DataOps[((p + r - 1) % Len(DataOps)) + 1]

Rotations == {0, 2, 4}

Endpoint(op) ==
  CASE op = "getMedia" -> "/media?limit=1000"
    [] op = "getUsers" -> "/users?limit=100"
    [] op = "getCategories" -> "/categories?limit=1000"
    [] op = "createCategory" -> "/categories"
    [] op = "createPost" -> "/posts"
    [] op = "getPosts" -> "/posts?limit=1000"
    [] op = "testConnection" -> "/posts?limit=1"

Method(op) == IF op \in {"createCategory", "createPost"} THEN "POST" ELSE "GET"

\* the credentials authenticate is called with
NewCredentials == {<<Str(OtherEmail), Str(<<"n", "e", "w">>)>>}

\* a call suspended at the login request it issued as the n-th one, with cred
AtLogin(at, op, cred, n) == [pc |-> at, op |-> op, cred |-> cred, n |-> n]

Moved(call, to) == [call EXCEPT !.pc = to]

\* ensureAuthenticated finds no token: getAuthToken sends the login request
CallStartLogin(p) ==
  /\ calls[p].pc = "idle"
  /\ ~TokenCached(authToken)
  /\ loginCount' = loginCount + 1
  /\ net' = Append(net, LoginReq(config))
  /\ calls' = [calls EXCEPT ![p] = AtLogin("ea_login", @.op, Credentials(config), loginCount')]
  /\ UNCHANGED <<config, authToken, authCalls, lastAuth,
                 toolVars, remoteVars, catVars, evalVars>>

\* ensureAuthenticated finds the cached token
CallStartCached(p) ==
  /\ calls[p].pc = "idle"
  /\ TokenCached(authToken)
  /\ calls' = [calls EXCEPT ![p] = Moved(@, "ready")]
  /\ UNCHANGED <<clientVars, authCalls, lastAuth,
                 toolVars, remoteVars, catVars, evalVars>>

\* the login of ensureAuthenticated succeeds: this.authToken = data.token
EnsureLoginOk(p) ==
  /\ calls[p].pc = "ea_login"
  /\ authToken' = Token(calls[p].cred, calls[p].n)
  /\ calls' = [calls EXCEPT ![p] = Moved(@, "ready")]
  /\ UNCHANGED <<config, loginCount, net, authCalls, lastAuth,
                 toolVars, remoteVars, catVars, evalVars>>

\* the login of ensureAuthenticated fails: getAuthToken rethrows, the method
\* returns its failure value (or rethrows, for createPost)
EnsureLoginFail(p) ==
  /\ calls[p].pc = "ea_login"
  /\ authToken' = AfterLoginFailure(authToken)
  /\ calls' = [calls EXCEPT ![p] = Moved(@, "failed")]
  /\ UNCHANGED <<config, loginCount, net, authCalls, lastAuth,
                 toolVars, remoteVars, catVars, evalVars>>

\* makeRequest: getAuthToken returns the cached token, the request is sent
MakeRequestCached(p) ==
  /\ calls[p].pc = "ready"
  /\ TokenCached(authToken)
  /\ net' = Append(net, Req(Method(calls[p].op), Endpoint(calls[p].op), authToken, Undef))
  /\ calls' = [calls EXCEPT ![p] = Moved(@, "sent")]
  /\ UNCHANGED <<config, authToken, loginCount, authCalls, lastAuth,
                 toolVars, remoteVars, catVars, evalVars>>

\* makeRequest: the token was discarded meanwhile, getAuthToken logs in again
MakeRequestLogin(p) ==
  /\ calls[p].pc = "ready"
  /\ ~TokenCached(authToken)
  /\ loginCount' = loginCount + 1
  /\ net' = Append(net, LoginReq(config))
  /\ calls' = [calls EXCEPT ![p] =
                 AtLogin("mk_login", @.op, Credentials(config), loginCount')]
  /\ UNCHANGED <<config, authToken, authCalls, lastAuth,
                 toolVars, remoteVars, catVars, evalVars>>

\* the login of makeRequest succeeds: the token is cached and sent
RequestLoginOk(p) ==
  /\ calls[p].pc = "mk_login"
  /\ authToken' = Token(calls[p].cred, calls[p].n)
  /\ net' = Append(net, Req(Method(calls[p].op), Endpoint(calls[p].op), authToken', Undef))
  /\ calls' = [calls EXCEPT ![p] = Moved(@, "sent")]
  /\ UNCHANGED <<config, loginCount, authCalls, lastAuth,
                 toolVars, remoteVars, catVars, evalVars>>

\* the login of makeRequest fails
RequestLoginFail(p) ==
  /\ calls[p].pc = "mk_login"
  /\ authToken' = AfterLoginFailure(authToken)
  /\ calls' = [calls EXCEPT ![p] = Moved(@, "failed")]
  /\ UNCHANGED <<config, loginCount, net, authCalls, lastAuth,
                 toolVars, remoteVars, catVars, evalVars>>

\* authenticate(email, password) up to the login request of getAuthToken
Authenticate(p, cred) ==
  /\ calls[p].pc = "idle"
  /\ config' = [config EXCEPT !.admin_email = cred[1], !.admin_password = cred[2]]
  /\ authToken' = NoToken
  /\ loginCount' = loginCount + 1
  /\ net' = Append(net, LoginReq(config'))
  /\ authCalls' = authCalls + 1
  /\ lastAuth' = [p |-> p, cred |-> cred, returned |-> FALSE]
  /\ calls' = [calls EXCEPT ![p] = AtLogin("au_login", "authenticate", cred, loginCount')]
  /\ UNCHANGED <<toolVars, remoteVars, catVars, evalVars>>

\* the login of authenticate succeeds: authenticate returns true
AuthLoginOk(p) ==
  /\ calls[p].pc = "au_login"
  /\ authToken' = Token(calls[p].cred, calls[p].n)
  /\ lastAuth' = IF lastAuth.p = p THEN [lastAuth EXCEPT !.returned = TRUE] ELSE lastAuth
  /\ calls' = [calls EXCEPT ![p] = Moved(@, "authed")]
  /\ UNCHANGED <<config, loginCount, net, authCalls,
                 toolVars, remoteVars, catVars, evalVars>>

\* the login of authenticate fails: authenticate returns false
AuthLoginFail(p) ==
  /\ calls[p].pc = "au_login"
  /\ authToken' = AfterLoginFailure(authToken)
  /\ calls' = [calls EXCEPT ![p] = Moved(@, "failed")]
  /\ UNCHANGED <<config, loginCount, net, authCalls, lastAuth,
                 toolVars, remoteVars, catVars, evalVars>>

InitClient ==
  /\ config = DefaultConfig
  /\ authToken = NoToken
  /\ loginCount = 0
  /\ net = << >>
  /\ \E r \in Rotations : calls = [p \in 1..NCalls |-> Idle(OpOf(p, r))]
  /\ authCalls = 0
  /\ lastAuth = NoAuth
  /\ IdleTool
  /\ IdleCategories
  /\ IdleEval

NextClient ==
  \/ \E p \in 1..NCalls : CallStartLogin(p)
  \/ \E p \in 1..NCalls : CallStartCached(p)
  \/ \E p \in 1..NCalls : EnsureLoginOk(p)
  \/ \E p \in 1..NCalls : EnsureLoginFail(p)
  \/ \E p \in 1..NCalls : MakeRequestCached(p)
  \/ \E p \in 1..NCalls : MakeRequestLogin(p)
  \/ \E p \in 1..NCalls : RequestLoginOk(p)
  \/ \E p \in 1..NCalls : RequestLoginFail(p)
  \/ \E p \in 1..NCalls, cred \in NewCredentials : Authenticate(p, cred)
  \/ \E p \in 1..NCalls : AuthLoginOk(p)
  \/ \E p \in 1..NCalls : AuthLoginFail(p)

SpecClient == InitClient /\ [][NextClient]_vars

\* ------------------------------------------------------------------------
\* Properties of createPostFromJSON
\* ------------------------------------------------------------------------
IsPostSubmission(r) == r.method = "POST" /\ r.ep = "/posts"

\* the bodies handed to createPost so far
Submissions == {net[i].body : i \in {j \in DOMAIN net : IsPostSubmission(net[j])}}

Validation == validatePostCreationRequest(request)

\* the mediaBlock nodes of a document
MediaNodes(content) ==
  {k \in DOMAIN content.root.children :
     /\ content.root.children[k].type = "block"
     /\ content.root.children[k].fields.blockType = "mediaBlock"}

\* C1: the compiled submission, every submission handed to createPost and
\* every post stored by the remote service has status "draft", whatever the
\* request carries.
AlwaysDraft ==
  /\ postData # Undef => postData._status = Str(Ldraft)
  /\ \A body \in Submissions : body._status = Str(Ldraft)
  /\ \A i \in DOMAIN posts : Get(posts[i].doc, "_status") = Str(Ldraft)

\* C1 witness: a request carrying the status "published" has been submitted
AlwaysDraftWitness ==
  /\ ~Nullish(request)
  /\ Get(request, "_status") = Str(Lpublished)
  /\ Submissions # {}
  /\ posts # << >>

\* C2: when createPostFromJSON is over it has returned a result value, never an
\* exception; when the validator threw or createPost failed, the value is
\* {success: false, error, details}.
NeverThrows ==
  pc = "done" =>
    /\ "success" \in DOMAIN result
    /\ (Validation.threw \/ (Submissions # {} /\ posts = << >>)) =>
         /\ result.success = FALSE
         /\ {"error", "details"} \subseteq DOMAIN result

\* C2 witness: createPost was called and failed, and the invocation is over
NeverThrowsWitness ==
  /\ pc = "done"
  /\ Submissions # {}
  /\ posts = << >>
  /\ result.success = FALSE

\* C3: for a request that fails validation nothing is compiled and no request
\* is sent to the remote service, and the result is the failure "Invalid JSON
\* input" whose details are the validation errors joined.
InvalidIsTerminal ==
  (Validation.threw \/ ~Validation.valid) =>
    /\ net = << >>
    /\ loginCount = 0
    /\ compiled = 0
    /\ postData = Undef
    /\ (pc = "done" /\ ~Validation.threw) =>
         result = Failure("Invalid JSON input", Join(Validation.errors, ", "))

\* C3 witness: an invocation with a request breaking two rules is over
InvalidIsTerminalWitness ==
  /\ pc = "done"
  /\ ~Validation.threw
  /\ Len(Validation.errors) >= 2
  /\ result.success = FALSE

\* C4 as claimed: every resource reference of a submission handed to
\* createPost (authors, heroImage, meta.image, the media of every mediaBlock
\* node) is a 24-character hexadecimal id.
SubmittedRefsAreIds ==
  \A body \in Submissions :
    /\ "authors" \in DOMAIN body =>
         \A i \in DOMAIN body.authors.a : isValidObjectId(body.authors.a[i])
    /\ "heroImage" \in DOMAIN body => isValidObjectId(body.heroImage)
    /\ "image" \in DOMAIN body.meta => isValidObjectId(body.meta.image)
    /\ \A k \in MediaNodes(body.content) :
         isValidObjectId(body.content.root.children[k].fields.media)

\* C5: a submission is sent only after the probe returned true, after one
\* resolution call was issued for every mediaBlock node and while no
\* resolution call is pending; when the probe returned false the result is
\* the connectivity failure and nothing was submitted.
SubmitAfterJoin ==
  /\ Submissions # {} =>
       /\ probe = TRUE
       /\ inflight = {}
       /\ Cardinality({i \in DOMAIN net : net[i].ep = "/media?limit=1000"})
            = Cardinality(MediaNodes(postData.content))
                + (IF Truthy(Get(request, "heroImage")) THEN 1 ELSE 0)
  /\ (pc = "done" /\ ~Validation.threw /\ Validation.valid /\ probe = FALSE) =>
       /\ result = ConnectivityFailure
       /\ Submissions = {}
       /\ posts = << >>

\* C5 witness: a document with two mediaBlock nodes has been submitted
SubmitAfterJoinWitness ==
  /\ Submissions # {}
  /\ postData # Undef
  /\ Cardinality(MediaNodes(postData.content)) >= 2

LoggedIn == {p \in 1..NCalls : calls[p].n > 0 /\ calls[p].pc \in {"ready", "sent", "authed"}}

\* the tokens issued to them
Granted == {Token(calls[p].cred, calls[p].n) : p \in LoggedIn}

\* the callers whose login request failed
FailedLogins == {p \in 1..NCalls : calls[p].pc = "failed"}

\* the callers suspended at a login request
AtLoginNow == {p \in 1..NCalls : calls[p].pc \in {"ea_login", "mk_login", "au_login"}}

\* the callers that have called
Started == {p \in 1..NCalls : calls[p].pc # "idle"}

\* the authenticated requests sent so far
DataRequests == {i \in DOMAIN net : net[i].ep # "/users/login"}

\* C7: while a token is cached and authenticate is not called, a step issues
\* no login request, leaves a token cached, and every request it sends carries
\* the cached token.
TokenReused ==
  [][(authToken # NoToken /\ authCalls' = authCalls) =>
       /\ loginCount' = loginCount
       /\ authToken' # NoToken
       /\ \A i \in (Len(net) + 1)..Len(net') : net'[i].token = authToken']_vars

\* C7 witness: after one login, two more calls sent their request with it
TokenReusedWitness ==
  /\ authCalls = 0
  /\ loginCount = 1
  /\ Cardinality({p \in 1..NCalls : calls[p].pc = "sent"}) >= 3
  /\ \A i \in DataRequests : net[i].token = authToken

\* C8 as claimed: once the latest authenticate(email, password) has returned
\* true, the cached token is one issued for (email, password).
ReauthReplacesToken ==
  lastAuth.returned => (authToken # NoToken /\ authToken.cred = lastAuth.cred)

\* C9 as claimed: with lazy logins only, at most one login request is issued
\* beyond the first, and the cached token is a token issued for the
\* configured credentials as soon as a login has succeeded.
LazyLoginOneRedundant ==
  authCalls = 0 =>
    /\ loginCount <= 2
    /\ Granted # {} => (authToken \in Granted /\ authToken.cred = Credentials(config))

\* C9 amended: with lazy logins only, every call issues at most one login
\* request (k concurrent calls issue up to k of them); as soon as a login has
\* succeeded the cached token is one of the tokens issued for the configured
\* credentials, whatever the other logins do, and before that none is cached.
LazyLoginRaceBenign ==
  authCalls = 0 =>
    /\ loginCount <= Cardinality(Started)
    /\ Granted # {} => (authToken \in Granted /\ authToken.cred = Credentials(config))
    /\ Granted = {} => authToken = NoToken

\* C9 witness: three concurrent lazy logins are over, one failed, one succeeded
LazyLoginRaceBenignWitness ==
  /\ authCalls = 0
  /\ loginCount >= 3
  /\ AtLoginNow = {}
  /\ FailedLogins # {}
  /\ Granted # {}
  /\ authToken \in Granted

\* ------------------------------------------------------------------------
\* PayloadCMSClient.getOrCreateCategories
\* ------------------------------------------------------------------------
\* the characters that occur in the strings of the model
CharUniverse ==
  Range(UpperChars) \cup Range(LowerChars) \cup Digits \cup Whitespace
    \cup {"-", "!", "@", ".", "/", "_"}

\* createCategory: title.toLowerCase().replace(/[^a-z0-9]+/g, '-').replace(/^-|-$/g, '')
CategorySlug(title) ==
  TrimHyphen(RunsToHyphen(ToLowerCase(title),
                          CharUniverse \ (Range(LowerChars) \cup Digits)))

Category(id, title) ==
  Obj([id |-> id, title |-> Str(title), slug |-> Str(CategorySlug(title))])

\* existingCategories.find(cat => cat.title.toLowerCase() === title.toLowerCase())
RECURSIVE FindCategory(_, _)
FindCategory(existing, title) ==
  IF existing = << >> THEN Undef
  ELSE IF ToLowerCase(Get(Head(existing), "title").s) = ToLowerCase(title.s)
    THEN Head(existing)
  ELSE FindCategory(Tail(existing), title)

\* the for loop from the title at index i up to the first title that has to be
\* created, or to its end: the ids pushed and the index reached
RECURSIVE GocScan(_, _, _, _)
GocScan(existing, titles, i, ids) ==
  IF i > Len(titles) THEN [i |-> i, ids |-> ids]
  ELSE IF Truthy(FindCategory(existing, titles[i]))
    THEN GocScan(existing, titles, i + 1,
                 Append(ids, Get(FindCategory(existing, titles[i]), "id")))
  ELSE [i |-> i, ids |-> ids]

\* the id the remote service gives to its n-th category
CategoryId(n) == Str([i \in 1..ObjectIdLength |-> IF i = 1 THEN "c" ELSE CHOOSE d \in Digits : d = ToString(n % 10)])

\* the loop goes on from index i: it ends, or createCategory sends its request
GocContinue(g, i, ids) ==
  LET scan == GocScan(g.existing, g.titles, i, ids)
  IN  IF scan.i > Len(g.titles)
        THEN /\ goc' = [g EXCEPT !.pc = "done", !.i = scan.i, !.ids = scan.ids]
             /\ UNCHANGED net
        ELSE /\ goc' = [g EXCEPT !.pc = "create", !.i = scan.i, !.ids = scan.ids]
             /\ net' = Append(net, Req("POST", "/categories", authToken,
                                       [title |-> g.titles[scan.i],
                                        slug |-> Str(CategorySlug(g.titles[scan.i].s))]))

\* getOrCreateCategories up to the request of getCategories
GocStart ==
  /\ goc.pc = "idle"
  /\ goc' = [goc EXCEPT !.pc = "list"]
  /\ net' = Append(net, Req("GET", "/categories?limit=1000", authToken, Undef))
  /\ UNCHANGED <<config, authToken, loginCount, categories, toolVars, remoteVars, callVars, evalVars>>

\* getCategories returns docs (the collection, or nothing when the request
\* failed); the loop runs up to the first createCategory
GocListReturn(ok) ==
  /\ goc.pc = "list"
  /\ GocContinue([goc EXCEPT !.existing = IF ok THEN categories ELSE << >>], 1, << >>)
  /\ UNCHANGED <<config, authToken, loginCount, categories, toolVars, remoteVars, callVars, evalVars>>

\* createCategory returns the category the remote service stored, or null when
\* the request failed; the loop goes on
GocCreateReturn(ok) ==
  /\ goc.pc = "create"
  /\ LET newCategory == IF ok
                          THEN Category(CategoryId(Len(categories) + 1), goc.titles[goc.i].s)
                          ELSE Null
     IN  /\ categories' = IF ok THEN Append(categories, newCategory) ELSE categories
         /\ GocContinue(goc, goc.i + 1,
                        IF Truthy(newCategory)
                          THEN Append(goc.ids, Get(newCategory, "id"))
                          ELSE goc.ids)
  /\ UNCHANGED <<config, authToken, loginCount, toolVars, remoteVars, callVars, evalVars>>

TitlePool == {Str(<<"D">> \o Tail(Ldocker)), Str(Ldocker), Str(<<"G", "o", "!">>)}

CategoryLists == {<< >>, <<Category(GoodId("e"), <<"D">> \o Tail(Ldocker))>>}

InitCategories ==
  /\ config = DefaultConfig
  /\ authToken = EarlierToken
  /\ loginCount = 0
  /\ net = << >>
  /\ categories \in CategoryLists
  /\ \E titles \in SeqsUpTo(TitlePool, MaxTitles) :
       goc = [pc |-> "idle", titles |-> titles, i |-> 0, existing |-> << >>,
              ids |-> << >>, before |-> categories]
  /\ IdleTool
  /\ IdleCalls
  /\ IdleEval

NextCategories ==
  \/ GocStart
  \/ \E ok \in BOOLEAN : GocListReturn(ok)
  \/ \E ok \in BOOLEAN : GocCreateReturn(ok)

SpecCategories == InitCategories /\ [][NextCategories]_vars

\* the categories the call has created so far
CreatedByCall == SubSeq(categories, Len(goc.before) + 1, Len(categories))

LowerTitle(cat) == ToLowerCase(Get(cat, "title").s)

\* C10 as claimed: one call creates at most one category per lower-cased
\* title, and none for a title the remote service already had.
IdempotentByTitle ==
  /\ \A i, j \in DOMAIN CreatedByCall :
       i # j => LowerTitle(CreatedByCall[i]) # LowerTitle(CreatedByCall[j])
  /\ \A i \in DOMAIN CreatedByCall, j \in DOMAIN goc.before :
       LowerTitle(CreatedByCall[i]) # LowerTitle(goc.before[j])

\* ------------------------------------------------------------------------
\* Direct calls of the operations that keep no state of their own
\* ------------------------------------------------------------------------
\* the completion of a call that returned v
Returned(v) == [threw |-> FALSE, value |-> v]

\* ------------------------------------------------------------------------
\* PayloadCMSClient.getDefaultAuthor on the list getUsers returned
\* ------------------------------------------------------------------------
MaxUsers == 2

UserPool ==
  { User(GoodId("a"), AdminEmail), User(ShortId, AdminEmail),
    User(GoodId("b"), LdemoAuthor), User(NonHexId, LdemoAuthor),
    User(GoodId("c"), OtherEmail), User(Null, OtherEmail) }

\* the configured admin email: an address of its own, or the default of the
\* constructor, which is the address of the demo author
AdminEmails == {Str(AdminEmail), Str(LdemoAuthor)}

CallGetDefaultAuthor ==
  /\ input.op = "getDefaultAuthor"
  /\ output = Undef
  /\ output' = Returned(getDefaultAuthor(input.users, config.admin_email))
  /\ UNCHANGED <<input, clientVars, toolVars, remoteVars, callVars, catVars>>

InitAuthor ==
  /\ \E e \in AdminEmails : config = [DefaultConfig EXCEPT !.admin_email = e]
  /\ authToken = EarlierToken
  /\ loginCount = 0
  /\ net = << >>
  /\ \E list \in SeqsUpTo(UserPool, MaxUsers) :
       input = [op |-> "getDefaultAuthor", users |-> list]
  /\ output = Undef
  /\ IdleTool
  /\ IdleCalls
  /\ IdleCategories

NextAuthor == CallGetDefaultAuthor

SpecAuthor == InitAuthor /\ [][NextAuthor]_vars

\* the positions of the users with the email
WithEmail(list, email) == {i \in DOMAIN list : Get(list[i], "email") = email}

Lowest(S) == CHOOSE i \in S : \A j \in S : i <= j

\* the identities of the list in the order of priority: the first user with
\* the configured admin email, the first with the demo author's, the first user
ByPriority(list, email) ==
  (IF WithEmail(list, email) # {} THEN <<list[Lowest(WithEmail(list, email))]>> ELSE << >>)
  \o (IF WithEmail(list, Str(LdemoAuthor)) # {}
        THEN <<list[Lowest(WithEmail(list, Str(LdemoAuthor)))]>> ELSE << >>)
  \o (IF list # << >> THEN <<list[1]>> ELSE << >>)

WellFormedId(v) ==
  /\ v.t = "string"
  /\ Len(v.s) = 24
  /\ \A i \in DOMAIN v.s : v.s[i] \in HexChars

HasWellFormedId(user) == WellFormedId(Get(user, "id"))

ListOps == {"getMedia", "getUsers", "getCategories"}

\* the collection of the remote service an operation lists
Collection(op) ==
  CASE op = "getMedia" -> media
    [] op = "getUsers" -> users
    [] op = "getCategories" -> categories

\* the ways a fetch fails: it rejects, it answers with a status that is not
\* 2xx, or it answers 2xx with a body that response.json() rejects
Failures == {"rejected", "status", "body"}

\* variant: the catch passes the error on
ListCatchRethrow(e) == Threw(e)

\* catch (error) { console.error(...); return []; }
ListCatch(e) == Returned(Arr(<< >>))

\* return result.docs || []
ListDocs(docs) == Returned(Or(Arr(docs), Arr(<< >>)))

\* ensureAuthenticated finds no token: getAuthToken sends the login request
ListStartLogin ==
  /\ input.op \in ListOps
  /\ input.pc = "idle"
  /\ ~TokenCached(authToken)
  /\ loginCount' = loginCount + 1
  /\ net' = Append(net, LoginReq(config))
  /\ input' = [input EXCEPT !.pc = "login"]
  /\ UNCHANGED <<config, authToken, output, toolVars, remoteVars, callVars, catVars>>

\* ensureAuthenticated finds the cached token: makeRequest sends the request
ListStartCached ==
  /\ input.op \in ListOps
  /\ input.pc = "idle"
  /\ TokenCached(authToken)
  /\ net' = Append(net, Req("GET", Endpoint(input.op), authToken, Undef))
  /\ input' = [input EXCEPT !.pc = "request"]
  /\ UNCHANGED <<config, authToken, loginCount, output, toolVars, remoteVars, callVars, catVars>>

\* the login succeeds: the token is cached, makeRequest sends the request
ListLoginOk ==
  /\ input.op \in ListOps
  /\ input.pc = "login"
  /\ authToken' = Token(Credentials(config), loginCount)
  /\ net' = Append(net, Req("GET", Endpoint(input.op), authToken', Undef))
  /\ input' = [input EXCEPT !.pc = "request"]
  /\ UNCHANGED <<config, loginCount, output, toolVars, remoteVars, callVars, catVars>>

\* the login fails: getAuthToken rethrows into the catch of the operation
ListLoginFail(how) ==
  /\ input.op \in ListOps
  /\ input.pc = "login"
  /\ authToken' = AfterLoginFailure(authToken)
  /\ input' = [input EXCEPT !.pc = "done", !.failed = "login"]
  /\ output' = ListCatch(how)
  /\ UNCHANGED <<config, loginCount, net, toolVars, remoteVars, callVars, catVars>>

\* the request is answered with the envelope {docs: [...]} of the collection
ListOk ==
  /\ input.op \in ListOps
  /\ input.pc = "request"
  /\ input' = [input EXCEPT !.pc = "done"]
  /\ output' = ListDocs(Collection(input.op))
  /\ UNCHANGED <<clientVars, toolVars, remoteVars, callVars, catVars>>

\* the request fails: makeRequest or response.json() throws into the catch
ListFail(how) ==
  /\ input.op \in ListOps
  /\ input.pc = "request"
  /\ input' = [input EXCEPT !.pc = "done", !.failed = how]
  /\ output' = ListCatch(how)
  /\ UNCHANGED <<clientVars, toolVars, remoteVars, callVars, catVars>>

InitList ==
  /\ config = DefaultConfig
  /\ authToken \in {NoToken, EarlierToken}
  /\ loginCount = 0
  /\ net = << >>
  /\ \E op \in ListOps : input = [op |-> op, pc |-> "idle", failed |-> "no"]
  /\ output = Undef
  /\ request = Undef
  /\ pc = "idle"
  /\ result = NoResult
  /\ postData = Undef
  /\ compiled = 0
  /\ probe = FALSE
  /\ inflight = {}
  /\ resolved = {}
  /\ posts = << >>
  /\ media \in MediaLists
  /\ users \in UserLists
  /\ categories \in CategoryLists
  /\ goc = [pc |-> "idle"]
  /\ IdleCalls

NextList ==
  \/ ListStartLogin
  \/ ListStartCached
  \/ ListLoginOk
  \/ \E how \in Failures : ListLoginFail(how)
  \/ ListOk
  \/ \E how \in Failures : ListFail(how)

SpecList == InitList /\ [][NextList]_vars

\* C12: a list operation that is over has returned a collection, never an
\* exception: the empty collection when its login or its request failed, and
\* otherwise exactly the docs of the collection it lists.
ListsNeverPropagate ==
  (input.op \in ListOps /\ input.pc = "done") =>
    /\ ~output.threw
    /\ output.value.t = "array"
    /\ input.failed # "no" => output.value.a = << >>
    /\ input.failed = "no" =>
         output.value.a = (CASE input.op = "getMedia" -> media
                             [] input.op = "getUsers" -> users
                             [] input.op = "getCategories" -> categories)

\* C12 witness: getUsers lost its login and returned the empty collection
\* although the remote service has users
ListsNeverPropagateWitness ==
  /\ input.op = "getUsers"
  /\ input.pc = "done"
  /\ input.failed = "login"
  /\ users # << >>
  /\ output.value.a = << >>

\* ------------------------------------------------------------------------
\* JSONProcessor.validatePostCreationRequest called on raw values
\* ------------------------------------------------------------------------
Lpython == <<"p", "y", "t", "h", "o", "n">>

Lruby == <<"r", "u", "b", "y">>

Lwarning == <<"w", "a", "r", "n", "i", "n", "g">>

LmyPost == <<"M", "y", " ", "P", "o", "s", "t", "!">>

ValidMeta == Obj([title |-> Str(<<"T">>), description |-> Str(<<"D">>)])

\* blocks the validator accepts
GoodBlocks ==
  { Block(Lparagraph, Str(<<"H", "i">>), Undef),
    Block(Lheading, Str(<<"H">>), Obj([level |-> Str(<<"h", "3">>)])),
    Block(Lcode, Str(<<"x">>), Obj([language |-> Str(Lpython)])),
    Block(Lbanner, Str(<<"B">>), Obj([style |-> Str(Lwarning)])),
    Block(LmediaBlock, Str(<< >>), Undef) }

\* elements of blocks that break one rule, or that the validator lets pass
\* although a metadata field has a value outside its enumeration
OddBlocks ==
  { Block(<<"q">>, Str(<<"H", "i">>), Undef),
    Obj([type |-> Undef, content |-> Str(<<"H", "i">>), metadata |-> Undef]),
    Obj([type |-> Num(5), content |-> Str(<<"H", "i">>), metadata |-> Undef]),
    Block(Lparagraph, Undef, Undef),
    Block(Lparagraph, Str(<< >>), Undef),
    Block(LmediaBlock, Undef, Undef),
    Block(Lparagraph, Str(<<"H", "i">>), Str(<<"m">>)),
    Block(Lheading, Str(<<"H">>), Obj([level |-> Str(<<"h", "9">>)])),
    Block(Lheading, Str(<<"H">>), Obj([level |-> Str(<< >>)])),
    Block(Lcode, Str(<<"x">>), Obj([language |-> Str(Lruby)])),
    Block(Lcode, Str(<<"x">>), Obj([language |-> Num(0)])),
    Block(Lbanner, Str(<<"B">>), Obj([style |-> Str(<<"l", "o", "u", "d">>)])),
    Block(Lbanner, Str(<<"B">>), Obj([style |-> Bool(FALSE)])),
    Null,
    Num(5) }

ValidatorBlockPool == GoodBlocks \cup OddBlocks

\* a request that satisfies every rule
ValidBase ==
  Obj([title |-> Str(LmyPost), meta |-> ValidMeta,
       blocks |-> Arr(<<Block(Lparagraph, Str(<<"H", "i">>), Undef)>>),
       slug |-> Undef, categories |-> Undef, heroImage |-> Undef])

\* the object with the field f set to v (undefined: the field is absent)
With(data, f, v) == Obj([data.o EXCEPT ![f] = v])

TitleValues == {Undef, Str(LmyPost), Str(<<" ">>), Num(5)}

MetaValues ==
  { Undef, ValidMeta, Str(<<"m">>),
    Obj([title |-> Str(<<"T">>), description |-> Undef]),
    Obj([title |-> Undef, description |-> Str(<<"D">>)]) }

BlocksValues ==
  {Undef, Str(<<"x">>)} \cup {Arr(b) : b \in SeqsUpTo(ValidatorBlockPool, MaxBlocks)}

SlugValues == {Undef, Str(<<"m", "y", "-", "s">>), Str(<< >>), Str(<<" ">>), Num(7)}

CategoriesValues ==
  { Undef, Arr(<<Str(<<"N">>)>>), Arr(<<Str(<<"N">>), Str(<< >>)>>),
    Arr(<<Num(5)>>), Str(<<"N">>), Str(<< >>) }

HeroImageValues == {Undef, Bool(TRUE), Bool(FALSE), Str(<<"y", "e", "s">>), Num(0)}

\* the raw values the validator is called on: values that are no objects,
\* and requests varying the required fields, the blocks, the optional fields,
\* and several fields at once
RawValues ==
  {Null, Undef, Num(5), Str(<<"x">>), Bool(TRUE), Arr(<< >>)}
    \cup {With(With(ValidBase, "title", t), "meta", m) : t \in TitleValues, m \in MetaValues}
    \cup {With(ValidBase, "blocks", b) : b \in BlocksValues}
    \cup {With(With(With(ValidBase, "slug", s), "categories", c), "heroImage", h) :
            s \in SlugValues, c \in CategoriesValues, h \in HeroImageValues}
    \cup {Obj([title |-> t, meta |-> m, blocks |-> b, slug |-> s, categories |-> c,
               heroImage |-> h]) :
            t \in {Undef, Str(LmyPost)},
            m \in {ValidMeta, Obj([title |-> Str(<<"T">>), description |-> Undef])},
            b \in {Arr(<<Block(Lparagraph, Str(<<"H", "i">>), Undef),
                         Block(<<"q">>, Str(<<"H", "i">>), Undef)>>), Arr(<< >>)},
            s \in {Undef, Num(7)},
            c \in {Undef, Arr(<<Str(<< >>)>>)},
            h \in {Undef, Str(<<"y", "e", "s">>)}}

CallValidate ==
  /\ input.op = "validatePostCreationRequest"
  /\ output = Undef
  /\ output' = validatePostCreationRequest(input.data)
  /\ UNCHANGED <<input, clientVars, toolVars, remoteVars, callVars, catVars>>

\* nothing but the direct call happens
IdleClient ==
  /\ config = DefaultConfig
  /\ authToken = NoToken
  /\ loginCount = 0
  /\ net = << >>

InitValidate ==
  /\ \E data \in RawValues : input = [op |-> "validatePostCreationRequest", data |-> data]
  /\ output = Undef
  /\ IdleClient
  /\ IdleTool
  /\ IdleCalls
  /\ IdleCategories

NextValidate == CallValidate

SpecValidate == InitValidate /\ [][NextValidate]_vars

Validated == input.op = "validatePostCreationRequest" /\ output # Undef

\* C13 as claimed: the validator returns a structured {valid, errors} result
\* for every raw value, and throws for none.
ValidateNeverThrows ==
  Validated =>
    /\ ~output.threw
    /\ {"valid", "errors"} \subseteq DOMAIN output

\* the errors the validator returns for a value it does not throw on
ErrorsOf(data) == validatePostCreationRequest(data).errors

\* the request that has the field f of data and breaks no rule elsewhere
Only(data, f) == With(ValidBase, f, Get(data, f))

\* the messages of a single block, reported for the index at
AtIndex(errors, at) == [k \in DOMAIN errors |-> [errors[k] EXCEPT !.at = at]]

RECURSIVE PerBlock(_, _)
PerBlock(blocks, k) ==
  IF k > Len(blocks) THEN << >>
  ELSE AtIndex(ErrorsOf(With(ValidBase, "blocks", Arr(<<blocks[k]>>))), k - 1)
         \o PerBlock(blocks, k + 1)

\* the position of the field a message is about in the order of the checks
FieldRank(m) ==
  CASE m = "title is required and must be a non-empty string" -> 1
    [] m \in {"meta is required and must be an object",
              "meta.title is required and must be a string",
              "meta.description is required and must be a string"} -> 2
    [] m \in {"slug must be a non-empty string if provided"} -> 4
    [] m \in {"categories must be an array if provided",
              "categories[] must be a non-empty string"} -> 5
    [] m = "heroImage must be a boolean if provided" -> 6
    [] OTHER -> 3

\* C14: the errors returned are those of every field taken alone, in the
\* order title, meta, blocks (block by block, by index), slug, categories,
\* heroImage: no violation hides another; valid is true exactly when there
\* is no error.
ValidateAccumulates ==
  (Validated /\ ~ValidateThrows(input.data)) =>
    LET data == input.data
        blocks == Get(data, "blocks")
    IN  /\ output.errors =
             ErrorsOf(Only(data, "title")) \o ErrorsOf(Only(data, "meta"))
               \o (IF blocks.t = "array" THEN PerBlock(blocks.a, 1)
                                         ELSE ErrorsOf(Only(data, "blocks")))
               \o ErrorsOf(Only(data, "slug")) \o ErrorsOf(Only(data, "categories"))
               \o ErrorsOf(Only(data, "heroImage"))
        /\ \A i, j \in DOMAIN output.errors :
             i < j => /\ FieldRank(output.errors[i].m) <= FieldRank(output.errors[j].m)
                      /\ (FieldRank(output.errors[i].m) = 3 /\ FieldRank(output.errors[j].m) = 3)
                           => output.errors[i].at <= output.errors[j].at
        /\ output.valid = (output.errors = << >>)

\* C14 witness: a request without title, without meta.description and with an
\* unknown type at blocks[1] got the three messages
ValidateAccumulatesWitness ==
  /\ Validated
  /\ ~ValidateThrows(input.data)
  /\ \E i, j, k \in DOMAIN output.errors :
       /\ i < j /\ j < k
       /\ output.errors[i].m = "title is required and must be a non-empty string"
       /\ output.errors[j].m = "meta.description is required and must be a string"
       /\ output.errors[k] = Msg(1, "blocks[].type must be one of: paragraph, heading, code, banner, mediaBlock")

\* a string with a character that is not white space
NonBlank(v) == v.t = "string" /\ \E i \in DOMAIN v.s : v.s[i] \notin Whitespace

\* the content contract of a block: a type of the closed set, a string content
\* that is empty only for a mediaBlock, and metadata, when there is any, with
\* level, language and style inside their enumerations
BlockSatisfiesContract(block) ==
  /\ block.t = "object"
  /\ Get(block, "type").t = "string"
  /\ Get(block, "type").s \in {Lheading, Lparagraph, Lcode, Lbanner, LmediaBlock}
  /\ IF Get(block, "type").s = LmediaBlock
       THEN Get(block, "content").t = "string"
       ELSE NonBlank(Get(block, "content"))
  /\ \/ Get(block, "metadata") = Undef
     \/ /\ Get(block, "metadata").t = "object"
        /\ \A f \in DOMAIN Get(block, "metadata").o :
             LET v == Get(block, "metadata").o[f]
             IN  \/ v = Undef
                 \/ /\ v.t = "string"
                    /\ f = "level" => v.s \in allowedLevels
                    /\ f = "language" => v.s \in allowedLanguages
                    /\ f = "style" => v.s \in allowedStyles

\* the content contract of a request
SatisfiesContract(data) ==
  /\ data.t = "object"
  /\ NonBlank(Get(data, "title"))
  /\ Get(data, "meta").t = "object"
  /\ NonBlank(Get(Get(data, "meta"), "title"))
  /\ NonBlank(Get(Get(data, "meta"), "description"))
  /\ Get(data, "blocks").t = "array"
  /\ \A k \in DOMAIN Get(data, "blocks").a : BlockSatisfiesContract(Get(data, "blocks").a[k])
  /\ Get(data, "slug") = Undef \/ NonBlank(Get(data, "slug"))
  /\ \/ Get(data, "categories") = Undef
     \/ /\ Get(data, "categories").t = "array"
        /\ \A k \in DOMAIN Get(data, "categories").a : NonBlank(Get(data, "categories").a[k])
  /\ Get(data, "heroImage") = Undef \/ Get(data, "heroImage").t = "boolean"

\* data with the field f of its block k (1-based) set to v
WithBlockField(data, k, f, v) ==
  With(data, "blocks",
       Arr([Get(data, "blocks").a EXCEPT ![k] = Obj([@.o EXCEPT ![f] = v])]))

\* data is a request satisfying the contract from which the field f was removed
LacksOnly(data, f, values) ==
  /\ data.t = "object"
  /\ Get(data, f) = Undef
  /\ \E v \in values : SatisfiesContract(With(data, f, v))

LacksOnlyMeta(data, f) ==
  /\ data.t = "object"
  /\ Get(data, "meta").t = "object"
  /\ Get(Get(data, "meta"), f) = Undef
  /\ SatisfiesContract(With(data, "meta", With(Get(data, "meta"), f, Str(<<"T">>))))

LacksOnlyInBlock(data, k, f, values) ==
  /\ data.t = "object"
  /\ Get(data, "blocks").t = "array"
  /\ k \in DOMAIN Get(data, "blocks").a
  /\ Get(data, "blocks").a[k].t = "object"
  /\ Get(Get(data, "blocks").a[k], f) = Undef
  /\ \E v \in values : SatisfiesContract(WithBlockField(data, k, f, v))

Reports(at, m) == \E i \in DOMAIN output.errors : output.errors[i] = Msg(at, m)

\* C15: a request satisfying the content contract is valid with no error; a
\* request lacking exactly one required field (title, meta, meta.title,
\* meta.description, blocks, the type of a block, the content of a block that
\* is no mediaBlock) is invalid with a message naming that field.
ValidateRequiredFields ==
  (Validated /\ ~ValidateThrows(input.data)) =>
    LET data == input.data
    IN  /\ SatisfiesContract(data) => (output.valid /\ output.errors = << >>)
        /\ LacksOnly(data, "title", {Str(LmyPost)}) =>
             (~output.valid /\ Reports(-1, "title is required and must be a non-empty string"))
        /\ LacksOnly(data, "meta", {ValidMeta}) =>
             (~output.valid /\ Reports(-1, "meta is required and must be an object"))
        /\ LacksOnlyMeta(data, "title") =>
             (~output.valid /\ Reports(-1, "meta.title is required and must be a string"))
        /\ LacksOnlyMeta(data, "description") =>
             (~output.valid /\ Reports(-1, "meta.description is required and must be a string"))
        /\ LacksOnly(data, "blocks", {Arr(<< >>)}) =>
             (~output.valid /\ Reports(-1, "blocks is required and must be an array"))
        /\ \A k \in 1..MaxBlocks :
             /\ LacksOnlyInBlock(data, k, "type", {Str(ty) : ty \in BlockTypes}) =>
                  (~output.valid /\ Reports(k - 1, "blocks[].type is required and must be a string"))
             /\ (/\ LacksOnlyInBlock(data, k, "content", {Str(<<"H", "i">>)})
                 /\ Get(Get(data, "blocks").a[k], "type") # Str(LmediaBlock)) =>
                  (~output.valid /\ Reports(k - 1, "blocks[].content is required and must be a string"))

\* C15 witness: a request lacking only the content of the paragraph at
\* blocks[1] was found invalid
ValidateRequiredFieldsWitness ==
  /\ Validated
  /\ ~ValidateThrows(input.data)
  /\ LacksOnlyInBlock(input.data, 2, "content", {Str(<<"H", "i">>)})
  /\ Get(Get(input.data, "blocks").a[2], "type") = Str(Lparagraph)
  /\ ~output.valid

\* a field that is there: neither undefined nor null
Present(v) == v.t \notin {"undefined", "null"}

\* C16 as claimed: a block whose type is a string outside the closed set, a
\* heading whose metadata.level, a code block whose metadata.language or a
\* banner whose metadata.style is there and outside its enumeration makes the
\* request invalid with the message naming the allowed set.
EnumerationsClosed ==
  (Validated /\ ~ValidateThrows(input.data) /\ Get(input.data, "blocks").t = "array") =>
    \A k \in DOMAIN Get(input.data, "blocks").a :
      LET block == Get(input.data, "blocks").a[k]
          type == Get(block, "type")
          metadata == Get(block, "metadata")
          Outside(f, allowed) ==
            /\ metadata.t = "object"
            /\ Present(Get(metadata, f))
            /\ ~(Get(metadata, f).t = "string" /\ Get(metadata, f).s \in allowed)
      IN  /\ (type.t = "string" /\ type.s # << >> /\ type.s \notin BlockTypes) =>
               /\ ~output.valid
               /\ Reports(k - 1, "blocks[].type must be one of: paragraph, heading, code, banner, mediaBlock")
          /\ (type = Str(Lheading) /\ Outside("level", allowedLevels)) =>
               /\ ~output.valid
               /\ Reports(k - 1, "blocks[].metadata.level must be one of: h2, h3")
          /\ (type = Str(Lcode) /\ Outside("language", allowedLanguages)) =>
               /\ ~output.valid
               /\ Reports(k - 1, "blocks[].metadata.language must be one of: allowedLanguages")
          /\ (type = Str(Lbanner) /\ Outside("style", allowedStyles)) =>
               /\ ~output.valid
               /\ Reports(k - 1, "blocks[].metadata.style must be one of: info, warning, error, success")

\* C17 as claimed: a slug that is there and is not a non-empty string, a
\* categories value that is there and is not a sequence of non-empty strings,
\* and a heroImage that is there and is not a boolean each make the request
\* invalid.
OptionalFieldsEnforced ==
  (Validated /\ ~ValidateThrows(input.data)) =>
    LET slug == Get(input.data, "slug")
        cats == Get(input.data, "categories")
        heroImage == Get(input.data, "heroImage")
    IN  /\ (Present(slug) /\ ~(slug.t = "string" /\ slug.s # << >>)) => ~output.valid
        /\ (Present(cats)
              /\ ~(cats.t = "array"
                     /\ \A k \in DOMAIN cats.a : cats.a[k].t = "string" /\ cats.a[k].s # << >>))
             => ~output.valid
        /\ (Present(heroImage) /\ heroImage.t # "boolean") => ~output.valid

\* ------------------------------------------------------------------------
\* Properties of the compiled document
\* ------------------------------------------------------------------------
\* the documents of the invocation: the one being compiled and enriched, and
\* those handed to createPost
Documents ==
  (IF postData = Undef THEN {} ELSE {postData.content}) \cup {body.content : body \in Submissions}

\* node is a node of the kind of block that carries the content of block; a
\* mediaBlock node carries the placeholder marker or the id it was resolved to
NodeOf(node, block) ==
  LET type == Get(block, "type").s
      content == Get(block, "content")
  IN  CASE type = Lheading ->
             /\ node.type = "heading"
             /\ node.children = <<[type |-> "text", text |-> content]>>
        [] type = Lparagraph ->
             /\ node.type = "paragraph"
             /\ node.children = <<[type |-> "text", text |-> content]>>
        [] type = Lcode ->
             /\ node.type = "block"
             /\ node.fields.blockType = "code"
             /\ node.fields.code = content
        [] type = Lbanner ->
             /\ node.type = "block"
             /\ node.fields.blockType = "banner"
             /\ Len(node.fields.content.root.children) = 1
             /\ node.fields.content.root.children[1].type = "paragraph"
             /\ node.fields.content.root.children[1].children = <<[type |-> "text", text |-> content]>>
        [] type = LmediaBlock ->
             /\ node.type = "block"
             /\ node.fields.blockType = "mediaBlock"
             /\ node.fields.media = Str(Lrandom) \/ WellFormedId(node.fields.media)
        [] OTHER -> FALSE

\* C18: every document compiled from a request with N blocks, before and
\* after enrichment and as handed to createPost, has exactly N top-level
\* nodes, the i-th of them being the node of the i-th block.
NodesFollowBlocks ==
  \A doc \in Documents :
    LET blocks == Get(request, "blocks").a
    IN  /\ Len(doc.root.children) = Len(blocks)
        /\ \A i \in DOMAIN blocks : NodeOf(doc.root.children[i], blocks[i])

\* C18 witness: a document of two blocks of different kinds was handed to
\* createPost with its mediaBlock node resolved by enrichment
NodesFollowBlocksWitness ==
  /\ Submissions # {}
  /\ Len(Get(request, "blocks").a) = 2
  /\ Get(request, "blocks").a[1] # Get(request, "blocks").a[2]
  /\ \E body \in Submissions : \E i \in MediaNodes(body.content) :
       WellFormedId(body.content.root.children[i].fields.media)

\* ------------------------------------------------------------------------
\* JSONProcessor.generateSlug called on titles
\* ------------------------------------------------------------------------
MaxTitleLen == 4

TitleChars == {"A", "b", "1", " ", "-", "!"}

LdockerTitle ==
  <<"D", "o", "c", "k", "e", "r", " ", "B", "e", "s", "t", " ",
    "P", "r", "a", "c", "t", "i", "c", "e", "s", "!">>

LdockerSlug ==
  <<"d", "o", "c", "k", "e", "r", "-", "b", "e", "s", "t", "-",
    "p", "r", "a", "c", "t", "i", "c", "e", "s">>

Titles == SeqsUpTo(TitleChars, MaxTitleLen) \cup {LdockerTitle, LdockerSlug}

CallGenerateSlug ==
  /\ input.op = "generateSlug"
  /\ output = Undef
  /\ output' = Returned(Str(generateSlug(input.title)))
  /\ UNCHANGED <<input, clientVars, toolVars, remoteVars, callVars, catVars>>

InitSlug ==
  /\ \E title \in Titles : input = [op |-> "generateSlug", title |-> title]
  /\ output = Undef
  /\ IdleClient
  /\ IdleTool
  /\ IdleCalls
  /\ IdleCategories

NextSlug == CallGenerateSlug

SpecSlug == InitSlug /\ [][NextSlug]_vars

\* lower-case letters and digits in groups separated by single hyphens
SlugLike(s) ==
  /\ s # << >>
  /\ \A i \in DOMAIN s : s[i] \in Range(LowerChars) \cup Digits \cup {"-"}
  /\ s[1] # "-"
  /\ s[Len(s)] # "-"
  /\ \A i \in 1..(Len(s) - 1) : ~(s[i] = "-" /\ s[i + 1] = "-")

\* C19: the slug derived from a title is left unchanged by a second
\* derivation, a title that is slug-like already is its own slug, and
\* "Docker Best Practices!" gives "docker-best-practices".
SlugIdempotent ==
  (input.op = "generateSlug" /\ output # Undef) =>
    /\ generateSlug(output.value.s) = output.value.s
    /\ SlugLike(input.title) => output.value.s = input.title
    /\ input.title = LdockerTitle => output.value.s = LdockerSlug

\* C19 witness: a title with a capital, white space next to a hyphen and
\* punctuation got a slug different from it
SlugIdempotentWitness ==
  /\ input.op = "generateSlug"
  /\ output # Undef
  /\ \E i \in 1..(Len(input.title) - 1) : input.title[i] = " " /\ input.title[i + 1] = "-"
  /\ "A" \in Range(input.title)
  /\ SlugLike(output.value.s)
  /\ output.value.s # input.title

\* ------------------------------------------------------------------------
\* JSONProcessor.processPostCreationRequest called on requests, validated or not
\* ------------------------------------------------------------------------
CodeBlock(metadata) == Block(Lcode, Str(<<"x">>), metadata)

\* code blocks without language, with a supported one, and with values outside
\* the supported set
CompilerBlockPool ==
  { CodeBlock(Undef),
    CodeBlock(Obj([blockName |-> Str(<<"N">>)])),
    CodeBlock(Obj([language |-> Str(Lpython)])),
    CodeBlock(Obj([language |-> Str(<<"s", "q", "l">>)])),
    CodeBlock(Obj([language |-> Str(Lruby)])),
    CodeBlock(Obj([language |-> Str(<<"P", "y", "t", "h", "o", "n">>)])),
    CodeBlock(Obj([language |-> Str(<< >>)])),
    CodeBlock(Obj([language |-> Num(5)])),
    Block(Lparagraph, Str(<<"H", "i">>), Undef) }

CallProcessPostCreationRequest ==
  /\ input.op = "processPostCreationRequest"
  /\ output = Undef
  /\ output' = Returned(processPostCreationRequest(input.request))
  /\ UNCHANGED <<input, clientVars, toolVars, remoteVars, callVars, catVars>>

InitCompile ==
  /\ \E blocks \in SeqsUpTo(CompilerBlockPool, MaxBlocks),
        heroImage \in {Undef, Bool(TRUE), Bool(FALSE)},
        cats \in {Undef, Arr(<<Str(<<"N">>)>>)} :
       input = [op |-> "processPostCreationRequest",
                request |-> With(With(With(ValidBase, "blocks", Arr(blocks)),
                                      "heroImage", heroImage), "categories", cats)]
  /\ output = Undef
  /\ IdleClient
  /\ IdleTool
  /\ IdleCalls
  /\ IdleCategories

NextCompile == CallProcessPostCreationRequest

SpecCompile == InitCompile /\ [][NextCompile]_vars

\* the languages of json-processor.ts:146-149, as strings
SupportedLanguages == {Str(l) : l \in allowedLanguages}

\* C20: the language of the node compiled from a code block is a supported
\* language: the requested one when it is supported, "javascript" when none
\* is requested or the requested value is outside the supported set.
CodeLanguageSupported ==
  (input.op = "processPostCreationRequest" /\ output # Undef) =>
    \A i \in DOMAIN Get(input.request, "blocks").a :
      LET block == Get(input.request, "blocks").a[i]
          requested == OptGet(Get(block, "metadata"), "language")
          node == output.value.content.root.children[i]
      IN  Get(block, "type") = Str(Lcode) =>
            /\ node.fields.blockType = "code"
            /\ node.fields.language \in SupportedLanguages
            /\ node.fields.language =
                 IF requested \in SupportedLanguages THEN requested ELSE Str(Ljavascript)

\* C20 witness: a code block asking for "ruby" was compiled to a javascript node
CodeLanguageSupportedWitness ==
  /\ input.op = "processPostCreationRequest"
  /\ output # Undef
  /\ \E i \in DOMAIN Get(input.request, "blocks").a :
       /\ OptGet(Get(Get(input.request, "blocks").a[i], "metadata"), "language") = Str(Lruby)
       /\ output.value.content.root.children[i].fields.language = Str(Ljavascript)

\* ------------------------------------------------------------------------
\* Properties of the compiled submission
\* ------------------------------------------------------------------------
Compiled == input.op = "processPostCreationRequest" /\ output # Undef

HeroFlag == Get(input.request, "heroImage") = Bool(TRUE)

\* C21 as claimed: the compiled submission has the placeholder marker in both
\* heroImage and meta.image when the heroImage flag is true, has neither
\* otherwise, and has no authors.
CompiledHeroPlaceholders ==
  Compiled =>
    /\ output.value.heroImage = (IF HeroFlag THEN Str(Lrandom) ELSE Undef)
    /\ output.value.meta.image = (IF HeroFlag THEN Str(Lrandom) ELSE Undef)
    /\ output.value.authors = Undef

\* C21 amended: the compiled submission has the placeholder marker in
\* heroImage when the heroImage flag is true and no heroImage otherwise; it
\* never has a meta.image (enrichment alone writes it, with a resolved id), and
\* it has no authors.
CompiledHeroImageOnly ==
  Compiled =>
    /\ output.value.heroImage = (IF HeroFlag THEN Str(Lrandom) ELSE Undef)
    /\ output.value.meta.image = Undef
    /\ output.value.authors = Undef

\* C21 witness: a request with the heroImage flag was compiled
CompiledHeroImageOnlyWitness ==
  /\ Compiled
  /\ HeroFlag
  /\ output.value.heroImage = Str(Lrandom)
  /\ Len(output.value.content.root.children) = 2

\* ------------------------------------------------------------------------
\* Categories and createPostFromJSON
\* ------------------------------------------------------------------------
\* the endpoints of getCategories and createCategory
CategoryEndpoints == {"/categories?limit=1000", "/categories"}

\* the request names categories
NamesCategories == request.t = "object" /\ Truthy(Get(request, "categories"))

\* the requests sent to the categories collection
CategoryRequests ==
  {i \in DOMAIN net : net[i].ep \in CategoryEndpoints}

CategoriesCreatedAndAssigned ==
  (pc = "done" /\ result.success /\ NamesCategories) =>
    /\ \A i \in DOMAIN Get(request, "categories").a :
         Truthy(FindCategory(categories, Get(request, "categories").a[i]))
    /\ \A i \in DOMAIN posts :
         /\ "categories" \in DOMAIN posts[i].body
         /\ Len(posts[i].body.categories.a) = Len(Get(request, "categories").a)

\* ------------------------------------------------------------------------
\* ConfigManager.detectBaseUrl
\* ------------------------------------------------------------------------
LserverUrlKey ==
  <<"N", "E", "X", "T", "_", "P", "U", "B", "L", "I", "C", "_",
    "S", "E", "R", "V", "E", "R", "_", "U", "R", "L", "=">>

Lhttp == <<"h", "t", "t", "p", ":", "/", "/">>

Llocalhost == <<"l", "o", "c", "a", "l", "h", "o", "s", "t">>

Lloopback == <<"1", "2", "7", ".", "0", ".", "0", ".", "1">>

LcontainerPort == <<":", "3", "0", "0", "0", "\"">>

\* the text of s before its first occurrence of the character sep
RECURSIVE Before(_, _)
Before(s, sep) ==
  IF s = << >> \/ Head(s) = sep THEN << >>
  ELSE <<Head(s)>> \o Before(Tail(s), sep)

\* line.split('=')[1]
SplitSecond(line) ==
  LET first == Before(line, "=")
  IN  IF Len(first) = Len(line) THEN Undef
      ELSE Str(Before(SubSeq(line, Len(first) + 2, Len(line)), "="))

NotQuote(c) == c # "\""

\* the for loop of readEnvFile over the lines of the file
RECURSIVE EnvLoop(_)
EnvLoop(lines) ==
  IF lines = << >> THEN Null
  ELSE LET part == SplitSecond(Head(lines))
           url == IF Nullish(part) THEN Undef
                  ELSE Str(SelectSeq(Trim(part.s), NotQuote))
       IN  IF StartsWith(Head(lines), LserverUrlKey) /\ Truthy(url)
             THEN url
             ELSE EnvLoop(Tail(lines))

\* a file is absent, or present and unreadable (readFileSync throws, the catch
\* clause returns null), or has content
readEnvFile(envFile) ==
  IF ~envFile.exists THEN Null
  ELSE IF ~envFile.readable THEN Null
  ELSE EnvLoop(envFile.lines)

\* the longest run of digits s begins with
RECURSIVE DigitsRun(_)
DigitsRun(s) ==
  IF s = << >> \/ Head(s) \notin Digits THEN << >>
  ELSE <<Head(s)>> \o DigitsRun(Tail(s))

\* composeContent.match(/- "(\d+):3000"/): group 1 of the first match
RECURSIVE PortMatch(_)
PortMatch(s) ==
  IF Len(s) < 3 THEN Null
  ELSE LET run == DigitsRun(SubSeq(s, 4, Len(s)))
       IN  IF /\ SubSeq(s, 1, 3) = <<"-", " ", "\"">>
              /\ run # << >>
              /\ StartsWith(SubSeq(s, 4 + Len(run), Len(s)), LcontainerPort)
             THEN Str(run)
             ELSE PortMatch(Tail(s))

\* detectServerIp: route and hostname are what the two commands print, or
\* undefined when execSync throws
detectServerIp(route, hostname) ==
  LET ip1 == IF route = Undef THEN << >> ELSE Trim(route.s)
      ip2 == IF hostname = Undef THEN << >> ELSE Before(Trim(hostname.s), " ")
  IN  IF ip1 # << >> /\ ip1 # Lloopback THEN ip1
      ELSE IF ip2 # << >> /\ ip2 # Lloopback THEN ip2
      ELSE Llocalhost

detectFromDockerCompose(compose, route, hostname) ==
  IF ~compose.exists THEN Null
  ELSE IF ~compose.readable THEN Null
  ELSE LET port == PortMatch(compose.content)
       IN  IF Truthy(port)
             THEN Str(Lhttp \o detectServerIp(route, hostname) \o <<":">> \o port.s)
             ELSE Null

\* variant: the .env file is read before the environment variable
detectBaseUrlEnvFileFirst(env, envFile, compose, route, hostname) ==
  IF Truthy(readEnvFile(envFile)) THEN readEnvFile(envFile)
  ELSE IF Truthy(env) THEN env
  ELSE IF Truthy(detectFromDockerCompose(compose, route, hostname))
    THEN detectFromDockerCompose(compose, route, hostname)
  ELSE Str(Lhttp \o Llocalhost \o <<":", "3", "0", "0", "0">>)

\* env is process.env.PAYLOADCMS_URL
detectBaseUrl(env, envFile, compose, route, hostname) ==
  IF Truthy(env) THEN env
  ELSE IF Truthy(readEnvFile(envFile)) THEN readEnvFile(envFile)
  ELSE IF Truthy(detectFromDockerCompose(compose, route, hostname))
    THEN detectFromDockerCompose(compose, route, hostname)
  ELSE Str(Lhttp \o Llocalhost \o <<":", "3", "0", "0", "0">>)

Absent == [exists |-> FALSE]

Unreadable == [exists |-> TRUE, readable |-> FALSE]

EnvFile(lines) == [exists |-> TRUE, readable |-> TRUE, lines |-> lines]

Compose(content) == [exists |-> TRUE, readable |-> TRUE, content |-> content]

Quoted(s) == <<"\"">> \o s \o <<"\"">>

UrlOverride == Lhttp \o <<"o">>

UrlE == Lhttp \o <<"e">>

UrlF == Lhttp \o <<"f">>

OverridePool == {Undef, Str(<< >>), Str(UrlOverride)}

EnvFilePool ==
  { Absent, Unreadable,
    EnvFile(<<<<"A", "=", "b">>>>),
    EnvFile(<<LserverUrlKey \o UrlE>>),
    EnvFile(<<<<"A", "=", "b">>, LserverUrlKey, LserverUrlKey \o Quoted(UrlF) \o <<" ">>>>),
    EnvFile(<<LserverUrlKey \o UrlE, LserverUrlKey \o UrlF>>) }

Mapping(host, container) == <<"-", " ">> \o Quoted(host \o <<":">> \o container)

ComposePool ==
  { Absent, Unreadable,
    Compose(Mapping(<<"8", "0">>, <<"8", "0">>)),
    Compose(<<" ">> \o Mapping(<<"8", "1">>, <<"3", "0", "0", "0">>) \o <<"\n">>),
    Compose(Mapping(<<"8", "0">>, <<"8", "0">>) \o <<"\n">>
              \o Mapping(<<"9">>, <<"3", "0", "0", "0">>)
              \o Mapping(<<"8", "1">>, <<"3", "0", "0", "0">>)) }

AddressA == <<"1", "0", ".", "0", ".", "0", ".", "5">>

AddressB == <<"1", "0", ".", "0", ".", "0", ".", "6">>

RoutePool == {Undef, Str(Lloopback \o <<"\n">>), Str(AddressA \o <<"\n">>)}

HostnamePool == {Undef, Str(<< >>), Str(AddressB \o <<" ">> \o AddressA \o <<" ", "\n">>)}

CallDetectBaseUrl ==
  /\ input.op = "detectBaseUrl"
  /\ output = Undef
  /\ output' = Returned(detectBaseUrl(input.env, input.envFile, input.compose,
                                      input.route, input.hostname))
  /\ UNCHANGED <<input, clientVars, toolVars, remoteVars, callVars, catVars>>

InitConfig ==
  /\ IdleClient
  /\ \E env \in OverridePool, envFile \in EnvFilePool, compose \in ComposePool,
        route \in RoutePool, hostname \in HostnamePool :
       input = [op |-> "detectBaseUrl", env |-> env, envFile |-> envFile,
                compose |-> compose, route |-> route, hostname |-> hostname]
  /\ output = Undef
  /\ IdleTool
  /\ IdleCalls
  /\ IdleCategories

NextConfig == CallDetectBaseUrl

SpecConfig == InitConfig /\ [][NextConfig]_vars

Detected == input.op = "detectBaseUrl" /\ output # Undef

\* the values the lines of the .env file give to NEXT_PUBLIC_SERVER_URL, in
\* the order of the lines, without quotes and surrounding blanks
ServerUrlValues(envFile) ==
  IF envFile.exists /\ envFile.readable
    THEN LET keyed == SelectSeq(envFile.lines, LAMBDA l : StartsWith(l, LserverUrlKey))
             values == [i \in DOMAIN keyed |->
                          SelectSeq(Trim(SubSeq(keyed[i], Len(LserverUrlKey) + 1, Len(keyed[i]))),
                                    NotQuote)]
         IN  SelectSeq(values, LAMBDA v : v # << >>)
    ELSE << >>

\* the host ports the file maps to port 3000
HostPorts(compose) ==
  IF compose.exists /\ compose.readable
    THEN LET c == compose.content
             starts == {i \in DOMAIN c : \E n \in 1..5 :
                          /\ i + 2 + n + 6 <= Len(c)
                          /\ SubSeq(c, i, i + 2) = <<"-", " ", "\"">>
                          /\ \A k \in (i + 3)..(i + 2 + n) : c[k] \in Digits
                          /\ SubSeq(c, i + 3 + n, i + 2 + n + 6) = LcontainerPort}
             PortAt(i) == LET n == CHOOSE n \in 1..5 :
                                     /\ i + 2 + n + 6 <= Len(c)
                                     /\ \A k \in (i + 3)..(i + 2 + n) : c[k] \in Digits
                                     /\ SubSeq(c, i + 3 + n, i + 2 + n + 6) = LcontainerPort
                          IN  SubSeq(c, i + 3, i + 2 + n)
         IN  IF starts = {} THEN << >> ELSE <<PortAt(Lowest(starts))>>
    ELSE << >>

\* the address the probe found: that of the route, else the first of the
\* host, the loopback address never
ProbedAddress(route, hostname) ==
  LET ok(a) == a \in {AddressA, AddressB}
  IN  IF route # Undef /\ ok(Trim(route.s)) THEN Trim(route.s)
      ELSE IF hostname # Undef /\ hostname.s # << >> THEN AddressB
      ELSE Llocalhost

\* C24: the base URL is the first of: the PAYLOADCMS_URL override, the
\* NEXT_PUBLIC_SERVER_URL value of the .env file, the host port mapped to port
\* 3000 in docker-compose.yaml joined to the probed address, and
\* http://localhost:3000; a later source is never used when an earlier one
\* yields a value.
BaseUrlFirstHit ==
  Detected =>
    LET fromEnvFile == ServerUrlValues(input.envFile)
        ports == HostPorts(input.compose)
    IN  /\ ~output.threw
        /\ output.value =
             IF input.env \notin {Undef, Str(<< >>)} THEN input.env
             ELSE IF fromEnvFile # << >> THEN Str(fromEnvFile[1])
             ELSE IF ports # << >>
               THEN Str(Lhttp \o ProbedAddress(input.route, input.hostname)
                          \o <<":">> \o ports[1])
             ELSE Str(Lhttp \o Llocalhost \o <<":", "3", "0", "0", "0">>)

\* C24 witness: without override and without a value in the .env file, the
\* URL was built from the mapping of docker-compose.yaml and the probed address
BaseUrlFirstHitWitness ==
  /\ Detected
  /\ input.env = Str(<< >>)
  /\ input.envFile = EnvFile(<<<<"A", "=", "b">>>>)
  /\ input.route = Str(Lloopback \o <<"\n">>)
  /\ output.value = Str(Lhttp \o AddressB \o <<":", "9">>)

\* ------------------------------------------------------------------------
\* The resolution calls of the document walk
\* ------------------------------------------------------------------------
\* the media requests of the walk: those sent after the one for the hero image
WalkRequests ==
  Cardinality({i \in DOMAIN net : net[i].ep = "/media?limit=1000"})
    - (IF pc \notin {"start", "probe_login", "probe_get", "author"}
          /\ probe = TRUE /\ Truthy(Get(request, "heroImage")) THEN 1 ELSE 0)

\* the walk has begun
Walking == postData # Undef /\ pc \in {"media", "submit", "done"}

\* the paths of the resolution calls that returned
ReturnedPaths == {r[1] : r \in resolved}

\* what the call for the mediaBlock node k returned
ResolvedAt(k) == CHOOSE r \in resolved : r[1] = <<k>>

\* the media reference of node k of a document
MediaAt(children, k) == children[k].fields.media

\* C25: the walk issues one resolution call per mediaBlock node holding the
\* marker; a node is written only by its own call, with the id that call
\* returned, and keeps the marker until then and when the call resolved nothing;
\* when every call resolved an id, no mediaBlock node of the submitted document
\* holds the marker.
OneResolutionPerPlaceholder ==
  Walking =>
    LET children == postData.content.root.children
        nodes == MediaNodes(postData.content)
    IN  /\ WalkRequests = Cardinality(nodes)
        /\ Cardinality(resolved) = Cardinality(ReturnedPaths)
        /\ ReturnedPaths \cup inflight = {<<k>> : k \in nodes}
        /\ ReturnedPaths \cap inflight = {}
        /\ \A k \in nodes :
             MediaAt(children, k) =
               IF <<k>> \in ReturnedPaths /\ Truthy(ResolvedAt(k)[2])
                 THEN ResolvedAt(k)[2]
                 ELSE Str(Lrandom)
        /\ \A body \in Submissions :
             (\A r \in resolved : Truthy(r[2])) =>
               \A k \in MediaNodes(body.content) :
                 MediaAt(body.content.root.children, k) # Str(Lrandom)

\* C25 witness: two mediaBlock nodes were resolved to different ids and the
\* document was submitted
OneResolutionPerPlaceholderWitness ==
  /\ Walking
  /\ Submissions # {}
  /\ Cardinality(resolved) = 2
  /\ \A r \in resolved : Truthy(r[2])
  /\ Cardinality({r[2] : r \in resolved}) = 2

\* ------------------------------------------------------------------------
\* Failures are surfaced once
\* ------------------------------------------------------------------------
PostRequests == {i \in DOMAIN net : IsPostSubmission(net[i])}

LoginRequests == {i \in DOMAIN net : net[i].ep = "/users/login"}

\* C26: one invocation issues at most one POST /api/posts and at most one
\* login request, so that a failed login is followed by no other; when the
\* login failed nothing else was sent, and when createPost failed the result
\* is the failure and the submission was sent once.
NoRetry ==
  /\ Cardinality(PostRequests) <= 1
  /\ Cardinality(LoginRequests) <= 1
  /\ loginCount = Cardinality(LoginRequests)
  /\ (pc = "done" /\ LoginRequests # {} /\ authToken = NoToken) =>
       /\ Len(net) = 1
       /\ result = ConnectivityFailure
  /\ (pc = "done" /\ PostRequests # {} /\ posts = << >>) =>
       /\ result.success = FALSE
       /\ PostRequests = {Len(net)}

\* C26 witness: createPost failed after a login and the failure was returned
NoRetryWitness ==
  /\ pc = "done"
  /\ PostRequests # {}
  /\ LoginRequests # {}
  /\ posts = << >>
  /\ result.success = FALSE

\* ------------------------------------------------------------------------
\* PayloadCMSClient.getRandomHeroImage on the list getMedia returned
\* ------------------------------------------------------------------------
MaxMedia == 2

MediaPool ==
  { Image(GoodId("1"), 1200), Image(GoodId("4"), 1920), Image(NonHexId, 1200),
    Image(GoodId("3"), 400), Image(GoodId("5"), 800),
    Pdf(GoodId("2")), Pdf(ShortId),
    Obj([id |-> GoodId("6"), mimeType |-> Null, width |-> Num(1000)]) }

CallGetRandomHeroImage ==
  /\ input.op = "getRandomHeroImage"
  /\ output = Undef
  /\ \E id \in getRandomHeroImage(input.media) : output' = Returned(id)
  /\ UNCHANGED <<input, clientVars, toolVars, remoteVars, callVars, catVars>>

InitHero ==
  /\ IdleClient
  /\ \E list \in SeqsUpTo(MediaPool, MaxMedia) :
       input = [op |-> "getRandomHeroImage", media |-> list]
  /\ output = Undef
  /\ IdleTool
  /\ IdleCalls
  /\ IdleCategories

NextHero == CallGetRandomHeroImage

SpecHero == InitHero /\ [][NextHero]_vars

\* an image wider than 800
LargeImage(m) ==
  /\ Get(m, "mimeType").t = "string"
  /\ Len(Get(m, "mimeType").s) >= 6
  /\ SubSeq(Get(m, "mimeType").s, 1, 6) = <<"i", "m", "a", "g", "e", "/">>
  /\ Get(m, "width").t = "number"
  /\ Get(m, "width").n > 800

\* C27: getRandomHeroImage returns none or a well-formed id; the item selected
\* is a large image when the list has one and the first item otherwise; the
\* result is the id of the selected item when it is well formed and none when
\* it is not or when the list is empty.
HeroImageSelection ==
  (input.op = "getRandomHeroImage" /\ output # Undef) =>
    LET list == input.media
        large == {i \in DOMAIN list : LargeImage(list[i])}
        candidates == IF large # {} THEN large
                      ELSE IF list # << >> THEN {1} ELSE {}
    IN  /\ ~output.threw
        /\ output.value = Null \/ WellFormedId(output.value)
        /\ candidates = {} => output.value = Null
        /\ candidates # {} =>
             \E i \in candidates :
               output.value = IF HasWellFormedId(list[i]) THEN Get(list[i], "id") ELSE Null

\* C27 witness: the first item is not a large image, the second is, and the id
\* of the second was returned
HeroImageSelectionWitness ==
  /\ input.op = "getRandomHeroImage"
  /\ output # Undef
  /\ Len(input.media) = 2
  /\ ~LargeImage(input.media[1])
  /\ HasWellFormedId(input.media[1])
  /\ LargeImage(input.media[2])
  /\ output.value = Get(input.media[2], "id")

\* ------------------------------------------------------------------------
\* Enrichment is best effort
\* ------------------------------------------------------------------------
\* the invocation is over and went past the probe
Enriched == pc = "done" /\ probe = TRUE

\* the ids of the documents of a collection
IdsOf(docs) == {Get(docs[i], "id") : i \in DOMAIN docs}

AuthenticateFails(p) == calls[p].pc = "au_login" /\ calls'[p].pc = "failed"

\* C29: when authenticate(email, password) returns false, no token is cached
\* and the stored credentials are (email, password), so that the next
\* authenticated call logs in with them.
FailedAuthUnauthenticated ==
  [][\A p \in 1..NCalls :
       AuthenticateFails(p) =>
         /\ authToken' = NoToken
         /\ Credentials(config') = calls[p].cred]_vars

\* ------------------------------------------------------------------------
\* Termination of createPostFromJSON
\* ------------------------------------------------------------------------
\* every network call completes, with a response or with an error: a step of
\* the invocation that can be taken is taken
LiveRequests ==
  { Null,
    Obj([blocks |-> Arr(<<Null>>)]),
    MkRequest(<<Str(<<"A">>), Undef, Undef, Undef>>,
              <<Block(<<"q">>, Str(<<"H", "i">>), Undef)>>),
    MkRequest(<<Str(<<"A">>), Undef, Undef, Undef>>,
              <<Block(Lparagraph, Str(<<"H", "i">>), Undef)>>),
    MkRequest(<<Str(<<"A">>), Bool(TRUE), Undef, Undef>>,
              <<Block(LmediaBlock, Str(<< >>), Undef), Block(LmediaBlock, Str(<< >>), Undef)>>) }

InitLive ==
  /\ config = DefaultConfig
  /\ authToken \in {NoToken, EarlierToken}
  /\ loginCount = 0
  /\ net = << >>
  /\ request \in LiveRequests
  /\ pc = "start"
  /\ result = NoResult
  /\ postData = Undef
  /\ compiled = 0
  /\ probe = FALSE
  /\ inflight = {}
  /\ resolved = {}
  /\ posts = << >>
  /\ media \in {<< >>, <<Image(GoodId("1"), 1200), Image(GoodId("4"), 1920)>>}
  /\ users \in {<< >>, <<User(GoodId("a"), AdminEmail)>>}
  /\ IdleCalls
  /\ IdleCategories
  /\ IdleEval

SpecLive == InitLive /\ [][Next]_vars /\ WF_vars(Next)

\* C30: every invocation returns, and returns one result: no result exists
\* before the return, the result never changes after it, and at the return no
\* resolution call of the walk is pending.
InvocationReturns ==
  /\ <>[](pc = "done" /\ result # NoResult /\ inflight = {})
  /\ [](pc # "done" => result = NoResult)
  /\ [][pc = "done" => (pc' = "done" /\ result' = result)]_vars

\* C30 witness: an invocation whose walk issued two resolution calls, one with
\* and one without an answer, has returned
InvocationReturnsWitness ==
  /\ pc = "done"
  /\ result # NoResult
  /\ Cardinality(resolved) = 2
  /\ \E r \in resolved : Truthy(r[2])
  /\ \E r \in resolved : r[2] = Null

====
